---- MODULE Spec2Model ----
(***************************************************************************)
(* Model of the Kiro/CodeWhisperer protocol bridge:                        *)
(*   - the AWS event-stream frame decoder (parseEventMessage,              *)
(*     parseEventStream) and the incremental reader                        *)
(*     (parseEventStreamAsync) of src/src/kiro/index.js;                   *)
(*   - the event translator (convertKiroEventToAnthropic), the stream      *)
(*     orchestrator (streamKiroResponse) and the request transport         *)
(*     (sendKiroMessageStream) of src/unnamed/part_001;                    *)
(*   - the HTTP handler app.post('/v1/messages') of src/unnamed/part_000.  *)
(*                                                                         *)
(* Buffers are sequences of bytes (0..255); a buffer offset is 0-based as  *)
(* in the code, so byte k of the code is element k+1 of the sequence.      *)
(***************************************************************************)
EXTENDS Integers, Sequences, FiniteSets, TLC

VARIABLES
    frames,     \* per request: the frame descriptors the upstream bytes were built from (test input)
    input,      \* per request: the bytes the upstream byte source delivers
    rd,         \* per request: state of one parseEventStreamAsync generator
    yielded,    \* per request: the payloads the reader has yielded so far (history)
    sync,       \* result of parseEventStream on the whole input of request 1
    tr,         \* per request: locals of one streamKiroResponse generator
    out,        \* per request: the events streamKiroResponse has yielded so far
    fed,        \* number of decoded payloads fed to the orchestrator (payload-level runs)
    tx,         \* locals of one sendKiroMessageStream call
    http        \* state of one app.post('/v1/messages') handler run and its response

vars == <<frames, input, rd, yielded, sync, tr, out, fed, tx, http>>

\* ---------------------------------------------------------------- bounds
MaxFrames == 2      \* frames per upstream byte buffer
MaxChunk == 36      \* largest chunk one reader.read() delivers
MaxCut == 1         \* bytes the source may drop from the end (truncated trailing frame)
MaxPayloads == 3    \* decoded payloads fed to the orchestrator in payload-level runs
MaxTicks == 6       \* the clock runs up to MaxTicks steps of 2.5 minutes
MaxMessages == 3    \* messages of one Anthropic request

\* ---------------------------------------------------------------- bytes
Min(a, b) == IF a < b THEN a ELSE b

\* Uint8Array.prototype.slice(begin, end) / buffer.slice(begin): 0-based,
\* end exclusive, both clamped to the length.
Slice(buffer, begin, end) ==
    SubSeq(buffer, Min(begin, Len(buffer)) + 1, Min(end, Len(buffer)))

\* DataView.getUint32(at): big-endian 32-bit unsigned integer. JavaScript
\* numbers hold every u32 and every sum the decoders form from them exactly;
\* the model checker's integers do not, so a value of 2^24 or more (a first
\* byte above 0) is carried as 2^24. Every buffer here is shorter than that,
\* so each comparison the code makes with such a value, and the sign of each
\* difference it forms, come out as for the exact value.
GetUint32(buffer, at) ==
    IF buffer[at + 1] > 0 THEN 16777216
    ELSE buffer[at + 2] * 65536 + buffer[at + 3] * 256 + buffer[at + 4]

\* payloadOffset = offset + 12 + headersLength
PayloadOffset_NoHeaders(offset, headersLength) == offset + 12

PayloadOffset(offset, headersLength) == offset + 12 + headersLength

\* payloadLength = totalLength - headersLength - 16 (12 prelude + 4 message CRC)
PayloadLength_KeepsCrc(totalLength, headersLength) == totalLength - headersLength - 12

PayloadLength(totalLength, headersLength) == totalLength - headersLength - 16

\* new Uint8Array(buffer, byteOffset, length) throws a RangeError when the
\* view does not lie inside the buffer.
ViewThrows(buffer, byteOffset, length) ==
    byteOffset > Len(buffer) \/ byteOffset + length > Len(buffer)

\* ---------------------------------------------------------------- JSON values
\* A JavaScript value held in a field: undefined, a string, a number or an
\* object (an object is carried by its JSON text in s).
Undef == [t |-> "undefined", s |-> "", n |-> 0]
Str(s) == [t |-> "string", s |-> s, n |-> 0]
Num(n) == [t |-> "number", s |-> "", n |-> n]
ObjText(s) == [t |-> "object", s |-> s, n |-> 0]

\* JavaScript truthiness of a field value.
Truthy(v) ==
    \/ v.t = "string" /\ v.s # ""
    \/ v.t = "number" /\ v.n # 0
    \/ v.t = "object"

\* a || b
OrElse(a, b) == IF Truthy(a) THEN a ELSE b

NoTokenUsage == [present |-> FALSE, inputTokens |-> Undef, outputTokens |-> Undef]
TokenUsage(i, o) == [present |-> TRUE, inputTokens |-> i, outputTokens |-> o]
NoTool == [present |-> FALSE, toolUseId |-> Undef, name |-> Undef, input |-> Undef]
Tool(id, name, inp) == [present |-> TRUE, toolUseId |-> id, name |-> name, input |-> inp]
NoWrap == [present |-> FALSE, content |-> Undef]
Wrap(c) == [present |-> TRUE, content |-> c]

\* A decoded payload: the value JSON.parse returned, or the {raw} wrapper.
\* jt is the JavaScript type of the value; the fields are those the
\* translator reads (all absent on a value that is not an object).
EmptyObject ==
    [jt |-> "object", content |-> Undef, assistantResponseEvent |-> NoWrap,
     usage |-> Undef, unit |-> Undef,
     metadataTokenUsage |-> NoTokenUsage, tokenUsage |-> NoTokenUsage,
     toolUseEvent |-> NoTool, toolUse |-> NoTool, codeEvent |-> NoWrap,
     raw |-> <<>>]

JsonNull == [EmptyObject EXCEPT !.jt = "null"]
JsonNumber == [EmptyObject EXCEPT !.jt = "number"]
JsonString == [EmptyObject EXCEPT !.jt = "string"]
JsonArray == [EmptyObject EXCEPT !.jt = "array"]
RawWrapper(text) == [EmptyObject EXCEPT !.raw = text]

\* ---------------------------------------------------------------- payload texts
\* Payload texts of the model, as character codes.
TxtNull == <<110, 117, 108, 108>>                               \* null
TxtOne == <<49>>                                                \* 1
TxtX == <<120>>                                                 \* x   (not JSON)
TxtBad == <<255, 123>>                                          \* 0xFF {  (not UTF-8, not JSON)
TxtContentA ==                                                  \* {"content":"a"}
    <<123, 34, 99, 111, 110, 116, 101, 110, 116, 34, 58, 34, 97, 34, 125>>
TxtToolUse ==                                                   \* {"toolUse":{}}
    <<123, 34, 116, 111, 111, 108, 85, 115, 101, 34, 58, 123, 125, 125>>

TxtToolInput ==                                                 \* {"toolUse":{"input":{}}}
    <<123, 34, 116, 111, 111, 108, 85, 115, 101, 34, 58, 123,
      34, 105, 110, 112, 117, 116, 34, 58, 123, 125, 125, 125>>

\* new TextDecoder().decode(bytes): UTF-8, not fatal. A byte below 0x80 is its
\* own character; 0xFF is never valid in UTF-8 and decodes to U+FFFD.
TextDecode(bytes) ==
    [i \in DOMAIN bytes |-> IF bytes[i] < 128 THEN bytes[i] ELSE 65533]

\* JSON.parse(text) on the texts of the model: ok is FALSE where it throws.
JSONparse(text) ==
    CASE text = TxtNull -> [ok |-> TRUE, value |-> JsonNull]
      [] text = TxtOne -> [ok |-> TRUE, value |-> JsonNumber]
      [] text = TxtContentA ->
            [ok |-> TRUE, value |-> [EmptyObject EXCEPT !.content = Str("a")]]
      [] text = TxtToolUse ->
            [ok |-> TRUE, value |-> [EmptyObject EXCEPT !.toolUse = Tool(Undef, Undef, Undef)]]
      [] text = TxtToolInput ->
            [ok |-> TRUE,
             value |-> [EmptyObject EXCEPT !.toolUse = Tool(Undef, Undef, ObjText("{}"))]]
      [] OTHER -> [ok |-> FALSE, value |-> JsonNull]

\* try { data = JSON.parse(payload) } catch (e) { data = { raw: payload } }
DecodePayload_NoFallback(bytes) == JSONparse(TextDecode(bytes)).value

DecodePayload(bytes) ==
    LET payload == TextDecode(bytes)
        parsed == JSONparse(payload)
    IN IF parsed.ok THEN parsed.value ELSE RawWrapper(payload)

\* ---------------------------------------------------------------- frame decoder
\* parseEventMessage(buffer, offset): complete = FALSE is the null result.
\* data = JsonNull is the JavaScript null of an empty frame (and of a JSON
\* null payload); bytes is the byte range handed to the TextDecoder.
\* error = TRUE: the call throws (the payload view is out of the buffer).
Incomplete ==
    [complete |-> FALSE, data |-> JsonNull, bytes |-> <<>>, nextOffset |-> 0, error |-> FALSE]

\* if (offset + 12 > buffer.byteLength) return null
PreludeMissing(buffer, offset) == offset + 12 > Len(buffer)

\* if (offset + totalLength > buffer.byteLength) return null
FrameMissing_Inclusive(buffer, offset, totalLength) == offset + totalLength >= Len(buffer)

FrameMissing(buffer, offset, totalLength) == offset + totalLength > Len(buffer)

\* nextOffset: offset + totalLength
NextOffset_BeforeCrc(offset, totalLength) == offset + totalLength - 4

NextOffset(offset, totalLength) == offset + totalLength

parseEventMessage(buffer, offset) ==
    IF PreludeMissing(buffer, offset) THEN Incomplete
    ELSE LET totalLength == GetUint32(buffer, offset)
             headersLength == GetUint32(buffer, offset + 4)
         IN IF FrameMissing(buffer, offset, totalLength) THEN Incomplete
            ELSE LET payloadOffset == PayloadOffset(offset, headersLength)
                     payloadLength == PayloadLength(totalLength, headersLength)
                 IN IF payloadLength <= 0
                    THEN [complete |-> TRUE, data |-> JsonNull, bytes |-> <<>>,
                          nextOffset |-> NextOffset(offset, totalLength), error |-> FALSE]
                    ELSE LET bytes == Slice(buffer, payloadOffset, payloadOffset + payloadLength)
                         IN [complete |-> TRUE, data |-> DecodePayload(bytes), bytes |-> bytes,
                             nextOffset |-> NextOffset(offset, totalLength),
                             error |-> ViewThrows(buffer, payloadOffset, payloadLength)]

\* The while loop of parseEventStream from `offset` with `events` collected.
\* returns = FALSE: the loop never ends (a consumed frame left the offset
\* where it was, so every further iteration repeats it).
RECURSIVE ParseLoop(_, _, _)
ParseLoop(buffer, offset, events) ==
    IF ~(offset < Len(buffer)) THEN [returns |-> TRUE, events |-> events]
    ELSE LET result == parseEventMessage(buffer, offset)
         IN IF ~result.complete THEN [returns |-> TRUE, events |-> events]
            ELSE IF result.nextOffset = offset THEN [returns |-> FALSE, events |-> events]
            ELSE ParseLoop(buffer, result.nextOffset,
                           IF result.data # JsonNull
                           THEN Append(events, [bytes |-> result.bytes, data |-> result.data])
                           ELSE events)

parseEventStream(buffer) == ParseLoop(buffer, 0, <<>>)

\* ---------------------------------------------------------------- incremental reader
\* The inner while loop of parseEventStreamAsync (lines 124-149) run from
\* `offset` until it suspends at a yield ("yield"), leaves the loop ("exit":
\* the condition is false or a break is taken) or stops advancing ("spin":
\* offset += totalLength with totalLength = 0 repeats the iteration for ever).
RECURSIVE ScanToYield(_, _)
ScanToYield(buffer, offset) ==
    LET exit == [kind |-> "exit", offset |-> offset, totalLength |-> 0, bytes |-> <<>>]
    IN IF ~(offset < Len(buffer)) THEN exit
       ELSE IF offset + 12 > Len(buffer) THEN exit
       ELSE LET totalLength == GetUint32(buffer, offset)
            IN IF offset + totalLength > Len(buffer) THEN exit
               ELSE LET headersLength == GetUint32(buffer, offset + 4)
                        payloadOffset == PayloadOffset(offset, headersLength)
                        payloadLength == PayloadLength(totalLength, headersLength)
                    IN IF payloadLength > 0
                       THEN [kind |-> "yield", offset |-> offset, totalLength |-> totalLength,
                             bytes |-> Slice(buffer, payloadOffset, payloadOffset + payloadLength)]
                       ELSE IF offset + totalLength = offset
                            THEN [kind |-> "spin", offset |-> offset, totalLength |-> 0,
                                  bytes |-> <<>>]
                            ELSE ScanToYield(buffer, offset + totalLength)

\* if (offset > 0) buffer = buffer.slice(offset)
KeepTail_Drop(buffer, offset) == <<>>

KeepTail(buffer, offset) ==
    IF offset > 0 THEN Slice(buffer, offset, Len(buffer)) ELSE buffer

\* The locals of one parseEventStreamAsync generator. pc: "read" = suspended at
\* await reader.read(); "yielded" = suspended at a yield with `item` handed to
\* the consumer; "spin" = in the loop that never ends; "done" = returned;
\* "failed" = threw; "closed" = the consumer abandoned it. locked: the reader
\* lock taken by stream.getReader() is still held. partial (history): the
\* generator has suspended at a read while its buffer held the prelude of a
\* frame whose declared totalLength exceeded the bytes accumulated.
NoItem == [bytes |-> <<>>, data |-> JsonNull]

ReaderInit ==
    [pc |-> "read", buffer |-> <<>>, offset |-> 0, totalLength |-> 0,
     item |-> NoItem, pos |-> 0, locked |-> TRUE, partial |-> FALSE]

\* The generator runs the loop from `offset` over `buffer` up to its next suspension.
ReaderScan(r, buffer, offset) ==
    LET s == ScanToYield(buffer, offset)
    IN CASE s.kind = "yield" ->
              [r EXCEPT !.pc = "yielded", !.buffer = buffer, !.offset = s.offset,
                        !.totalLength = s.totalLength,
                        !.item = [bytes |-> s.bytes, data |-> DecodePayload(s.bytes)]]
         [] s.kind = "exit" ->
              LET tail == KeepTail(buffer, s.offset)
              IN [r EXCEPT !.pc = "read", !.buffer = tail,
                           !.offset = 0, !.totalLength = 0, !.item = NoItem,
                           !.partial = r.partial \/ (Len(tail) >= 12 /\ GetUint32(tail, 0) > Len(tail))]
         [] OTHER ->
              [r EXCEPT !.pc = "spin", !.buffer = buffer, !.offset = s.offset,
                        !.totalLength = 0, !.item = NoItem]

\* reader.read() resolved with {done: false, value: chunk}: append, scan from 0.
ReaderOnChunk_Replace(r, chunk) ==
    ReaderScan([r EXCEPT !.pos = r.pos + Len(chunk)], chunk, 0)

ReaderOnChunk(r, chunk) ==
    ReaderScan([r EXCEPT !.pos = r.pos + Len(chunk)], r.buffer \o chunk, 0)

\* The consumer asked for the next payload after a yield: offset += totalLength.
ReaderOnNext(r) == ReaderScan(r, r.buffer, r.offset + r.totalLength)

\* reader.read() resolved with {done: true}: break, finally releaseLock().
\* Whatever the buffer still holds is left there.
ReaderOnDone_RejectTail(r) ==
    IF r.buffer # <<>>
    THEN [r EXCEPT !.pc = "failed", !.item = NoItem, !.locked = FALSE]
    ELSE [r EXCEPT !.pc = "done", !.item = NoItem, !.locked = FALSE]

ReaderOnDone(r) == [r EXCEPT !.pc = "done", !.item = NoItem, !.locked = FALSE]

\* reader.read() rejected: finally releaseLock(), the error propagates.
ReaderOnError(r) == [r EXCEPT !.pc = "failed", !.item = NoItem, !.locked = FALSE]

\* The consumer abandoned the generator while it was suspended at a yield
\* (for await calls return() when its body throws): the try block is left
\* through finally, which calls releaseLock().
ReaderOnReturn_NoFinally(r) == [r EXCEPT !.pc = "closed", !.item = NoItem]

ReaderOnReturn(r) == [r EXCEPT !.pc = "closed", !.item = NoItem, !.locked = FALSE]

\* ---------------------------------------------------------------- canonical events
\* One Anthropic-format event. index = -1 and Undef fields are fields the
\* event does not carry. Random identifiers (the message id, a generated
\* tool id) are opaque and carried as fixed tokens.
NoEvent ==
    [type |-> "none", index |-> -1, kind |-> "", text |-> Undef, id |-> Undef,
     name |-> Undef, model |-> "", input_tokens |-> Undef, output_tokens |-> Undef,
     stop_reason |-> ""]

\* message_start carries content: [] and usage {input_tokens: 0, output_tokens: 0}.
MessageStart(model) ==
    [NoEvent EXCEPT !.type = "message_start", !.model = model,
                    !.input_tokens = Num(0), !.output_tokens = Num(0)]
BlockStart(index, kind, id, name) ==
    [NoEvent EXCEPT !.type = "content_block_start", !.index = index, !.kind = kind,
                    !.id = id, !.name = name]
BlockDelta(index, kind, text) ==
    [NoEvent EXCEPT !.type = "content_block_delta", !.index = index, !.kind = kind,
                    !.text = text]
BlockStop(index) == [NoEvent EXCEPT !.type = "content_block_stop", !.index = index]
UsageDelta(i, o) ==
    [NoEvent EXCEPT !.type = "message_delta", !.input_tokens = i, !.output_tokens = o]
FinalDelta(o) ==
    [NoEvent EXCEPT !.type = "message_delta", !.stop_reason = "end_turn", !.output_tokens = o]
MessageStop == [NoEvent EXCEPT !.type = "message_stop"]

\* JSON.stringify(value) of a field value.
JSONstringify(v) ==
    CASE v.t = "object" -> Str(v.s)
      [] v.t = "number" -> Str(ToString(v.n))
      [] OTHER -> Str("\"" \o v.s \o "\"")

\* toolUse.toolUseId || `toolu_${randomUUID...}`
GeneratedToolId == Str("toolu_generated")

\* ---------------------------------------------------------------- event translator
\* The tool-use branch of convertKiroEventToAnthropic (lines 272-313).
CloseOpenBlock_Never(blockIndex, hasOpenBlock) == <<>>

\* if (hasOpenBlock) events.push({type: 'content_block_stop', index: blockIndex})
CloseOpenBlock(blockIndex, hasOpenBlock) ==
    IF hasOpenBlock THEN <<BlockStop(blockIndex)>> ELSE <<>>

ToolUseEvents(toolUse, blockIndex, hasOpenBlock) ==
    LET newBlockIndex == blockIndex + 1
    IN CloseOpenBlock(blockIndex, hasOpenBlock)
        \o <<BlockStart(newBlockIndex, "tool_use",
                        OrElse(toolUse.toolUseId, GeneratedToolId), toolUse.name)>>
        \o (IF Truthy(toolUse.input)
            THEN <<BlockDelta(newBlockIndex, "input_json_delta", JSONstringify(toolUse.input))>>
            ELSE <<>>)
        \o <<BlockStop(newBlockIndex)>>

\* The condition of the first rule (line 227): content is present and a string.
HasStringContent_Never(eventData) == FALSE

HasStringContent(eventData) == eventData.content.t = "string"

\* The condition of the third rule (line 250): usage and unit are both present.
IsUsageMetering_Never(eventData) == FALSE

IsUsageMetering(eventData) ==
    eventData.usage.t # "undefined" /\ eventData.unit.t # "undefined"

\* The text delta pushed by the rules for content, for the wrapper and for a
\* code event (lines 228-232, 240-244, 317-321).
TextDelta_NextIndex(blockIndex, text) == BlockDelta(blockIndex + 1, "text_delta", text)

TextDelta(blockIndex, text) == BlockDelta(blockIndex, "text_delta", text)

\* convertKiroEventToAnthropic(eventData, blockIndex, hasOpenBlock): the events
\* it returns; throws = TRUE where reading a property of null raises a TypeError.
convertKiroEventToAnthropic(eventData, blockIndex, hasOpenBlock) ==
    LET ret(events) == [throws |-> FALSE, events |-> events]
    IN IF eventData.jt = "null" THEN [throws |-> TRUE, events |-> <<>>]
       ELSE IF HasStringContent(eventData)
            THEN ret(<<TextDelta(blockIndex, eventData.content)>>)
       ELSE IF eventData.assistantResponseEvent.present
            THEN LET content == eventData.assistantResponseEvent.content
                 IN IF Truthy(content)
                    THEN ret(<<TextDelta(blockIndex, content)>>)
                    ELSE ret(<<>>)
       ELSE IF IsUsageMetering(eventData)
            THEN ret(<<>>)
       ELSE IF eventData.metadataTokenUsage.present \/ eventData.tokenUsage.present
            THEN LET usage == IF eventData.metadataTokenUsage.present
                              THEN eventData.metadataTokenUsage ELSE eventData.tokenUsage
                 IN ret(<<UsageDelta(OrElse(usage.inputTokens, Num(0)),
                                     OrElse(usage.outputTokens, Num(0)))>>)
       ELSE IF eventData.toolUseEvent.present \/ eventData.toolUse.present
            THEN LET toolUse == IF eventData.toolUseEvent.present
                                THEN eventData.toolUseEvent ELSE eventData.toolUse
                 IN ret(ToolUseEvents(toolUse, blockIndex, hasOpenBlock))
       ELSE IF eventData.codeEvent.present
            THEN ret(<<TextDelta(blockIndex, OrElse(eventData.codeEvent.content, Str("")))>>)
       ELSE ret(<<>>)

\* ---------------------------------------------------------------- stream orchestrator
\* The locals of one streamKiroResponse generator. pc: "running" = inside the
\* for await loop; "done" = returned after message_stop; "failed" = threw
\* (error: the message of what it threw).
ErrRead == "terminated"
ErrNullPayload == "Cannot read properties of null (reading 'content')"

StreamInit ==
    [pc |-> "running", contentBlockIndex |-> 0, hasStarted |-> FALSE,
     hasOpenBlock |-> FALSE, inputTokens |-> Num(0), outputTokens |-> Num(0),
     error |-> ""]

RequestModel == "claude-3-5-sonnet-20241022"

\* mapModelToKiro on the model name of the request: it is in no direct mapping;
\* lower-cased it includes 'sonnet' and '4' but not '4.5'.
mapModelToKiro(anthropicModel) ==
    IF anthropicModel = RequestModel THEN "claude-sonnet-4" ELSE "claude-opus-4.5"

\* The events yielded before the first payload is translated (lines 138-161).
\* requestModel is the `model` sendKiroMessageStream passes at line 99: the
\* name in the request, not kiroModel.
FirstEvents_Mapped(t) ==
    <<MessageStart(mapModelToKiro(RequestModel)),
      BlockStart(t.contentBlockIndex, "text", Undef, Undef)>>

FirstEvents(t) ==
    <<MessageStart(RequestModel), BlockStart(t.contentBlockIndex, "text", Undef, Undef)>>

\* The tracking at lines 168-180 applied to the events of one payload, in order.
RECURSIVE Track(_, _)
Track(t, evts) ==
    IF evts = <<>> THEN t
    ELSE LET evt == Head(evts)
             t1 == IF evt.type = "content_block_start" THEN [t EXCEPT !.hasOpenBlock = TRUE]
                   ELSE t
             t2 == IF evt.type = "content_block_stop" THEN [t1 EXCEPT !.hasOpenBlock = FALSE]
                   ELSE t1
             t3 == IF evt.type = "message_delta"
                   THEN [t2 EXCEPT !.inputTokens = OrElse(evt.input_tokens, t2.inputTokens),
                                   !.outputTokens = OrElse(evt.output_tokens, t2.outputTokens)]
                   ELSE t2
         IN Track(t3, Tail(evts))

\* One iteration of the for await loop (lines 136-185) on one decoded payload:
\* the new locals and the events yielded, in order.
StreamOnPayload(t, event) ==
    LET first == IF ~t.hasStarted THEN FirstEvents(t) ELSE <<>>
        t1 == IF ~t.hasStarted THEN [t EXCEPT !.hasStarted = TRUE, !.hasOpenBlock = TRUE] ELSE t
        conv == convertKiroEventToAnthropic(event, t1.contentBlockIndex, t1.hasOpenBlock)
    IN IF conv.throws
       THEN [state |-> [t1 EXCEPT !.pc = "failed", !.error = ErrNullPayload], events |-> first]
       ELSE [state |-> Track(t1, conv.events), events |-> first \o conv.events]

\* The reader is exhausted (lines 187-207).
StreamOnEnd_NoClose(t) ==
    [state |-> [t EXCEPT !.pc = "done"], events |-> <<FinalDelta(t.outputTokens), MessageStop>>]

StreamOnEnd(t) ==
    [state |-> [t EXCEPT !.pc = "done"],
     events |-> (IF t.hasOpenBlock THEN <<BlockStop(t.contentBlockIndex)>> ELSE <<>>)
                    \o <<FinalDelta(t.outputTokens), MessageStop>>]

\* The reader threw: catch, log, rethrow (lines 209-212).
StreamOnError(t) == [state |-> [t EXCEPT !.pc = "failed", !.error = ErrRead], events |-> <<>>]

\* ---------------------------------------------------------------- SpecStream
\* One streamKiroResponse generator fed decoded payloads one at a time.
PayloadChoices ==
    { [EmptyObject EXCEPT !.content = Str("a")],
      [EmptyObject EXCEPT !.content = Str("")],
      [EmptyObject EXCEPT !.assistantResponseEvent = Wrap(Str("b"))],
      [EmptyObject EXCEPT !.assistantResponseEvent = Wrap(Undef)],
      [EmptyObject EXCEPT !.usage = Num(1), !.unit = Str("credit")],
      [EmptyObject EXCEPT !.tokenUsage = TokenUsage(Num(5), Num(7))],
      [EmptyObject EXCEPT !.metadataTokenUsage = TokenUsage(Num(3), Undef)],
      [EmptyObject EXCEPT !.toolUseEvent = Tool(Str("abc"), Str("search"), ObjText("{\"q\":\"x\"}"))],
      [EmptyObject EXCEPT !.toolUse = Tool(Undef, Str("search"), Undef)],
      [EmptyObject EXCEPT !.codeEvent = Wrap(Str("c"))],
      EmptyObject,
      RawWrapper(TxtX),
      JsonNumber,
      JsonString,
      JsonArray,
      JsonNull }

StreamSpecInit ==
    /\ frames = <<>>
    /\ input = <<>>
    /\ rd = <<>>
    /\ yielded = << <<>> >>
    /\ sync = [pc |-> "idle", events |-> <<>>]
    /\ tr = <<StreamInit>>
    /\ out = << <<>> >>
    /\ fed = 0
    /\ tx = <<>>
    /\ http = <<>>

\* The reader yields the next decoded payload (yielded keeps the payloads
\* delivered so far; their bytes are below this specification).
StreamFeed ==
    /\ tr[1].pc = "running"
    /\ fed < MaxPayloads
    /\ \E event \in PayloadChoices :
          LET res == StreamOnPayload(tr[1], event)
          IN /\ tr' = [tr EXCEPT ![1] = res.state]
             /\ out' = [out EXCEPT ![1] = out[1] \o res.events]
             /\ yielded' = [yielded EXCEPT ![1] = Append(yielded[1], [bytes |-> <<>>, data |-> event])]
    /\ fed' = fed + 1
    /\ UNCHANGED <<frames, input, rd, sync, tx, http>>

\* The reader is exhausted.
StreamExhausted ==
    /\ tr[1].pc = "running"
    /\ LET res == StreamOnEnd(tr[1])
       IN /\ tr' = [tr EXCEPT ![1] = res.state]
          /\ out' = [out EXCEPT ![1] = out[1] \o res.events]
    /\ UNCHANGED <<frames, input, rd, yielded, sync, fed, tx, http>>

\* The reader throws (a read of the byte source failed).
StreamReadFails ==
    /\ tr[1].pc = "running"
    /\ LET res == StreamOnError(tr[1])
       IN /\ tr' = [tr EXCEPT ![1] = res.state]
          /\ out' = [out EXCEPT ![1] = out[1] \o res.events]
    /\ UNCHANGED <<frames, input, rd, yielded, sync, fed, tx, http>>

StreamNextStep == StreamFeed \/ StreamExhausted \/ StreamReadFails

SpecStream == StreamSpecInit /\ [][StreamNextStep]_vars

\* ---------------------------------------------------------------- claims on SpecStream
Positions(events, type) == { p \in DOMAIN events : events[p].type = type }

\* The positions after p of the events of the block started at p: up to the
\* next content_block_start at the same index, or the end.
Segment(events, p) ==
    { q \in DOMAIN events :
        /\ q > p
        /\ \A k \in (p + 1)..q :
              ~(events[k].type = "content_block_start" /\ events[k].index = events[p].index) }

StopsOf(events, p) ==
    { q \in Segment(events, p) :
        events[q].type = "content_block_stop" /\ events[q].index = events[p].index }

\* C1: a stream that ended normally starts with the only message_start, holds
\* exactly one matching content_block_stop for every content_block_start and
\* ends with the only message_stop.
C1_WellFormedStream ==
    tr[1].pc = "done" =>
        LET events == out[1]
        IN /\ Len(events) >= 1
           /\ events[1].type = "message_start"
           /\ Cardinality(Positions(events, "message_start")) = 1
           /\ \A p \in Positions(events, "content_block_start") :
                 Cardinality(StopsOf(events, p)) = 1
           /\ events[Len(events)].type = "message_stop"
           /\ Cardinality(Positions(events, "message_stop")) = 1

C3_ToolBlockFreshIndex ==
    LET events == out[1]
    IN \A p \in Positions(events, "content_block_start") :
          events[p].kind = "tool_use" =>
             /\ \A q \in Positions(events, "content_block_start") :
                   q < p => events[q].index < events[p].index
             /\ \/ events[p + 1] = BlockStop(events[p].index)
                \/ /\ events[p + 1].type = "content_block_delta"
                   /\ events[p + 1].index = events[p].index
                   /\ events[p + 2] = BlockStop(events[p].index)
             /\ \A q \in Positions(events, "content_block_start") :
                   q < p => \E e \in StopsOf(events, q) : e < p

\* The payloads no rule of the translator recognises: an object with none of
\* the fields it looks for, the raw wrapper, and JSON values that are not objects.
Unrecognised ==
    {EmptyObject, RawWrapper(TxtX), JsonNumber, JsonString, JsonArray, JsonNull}

\* C13: a payload of an unrecognised shape is ignored: the step that consumes
\* it raises no error, emits no translated event (only the two start events,
\* if it is the first payload) and leaves the stream state as it was (apart
\* from the stream now being started).
C13_UnrecognisedIgnored ==
    [][ ( /\ Len(yielded'[1]) = Len(yielded[1]) + 1
          /\ yielded'[1][Len(yielded'[1])].data \in Unrecognised )
        => /\ tr'[1] = [tr[1] EXCEPT !.hasStarted = TRUE,
                                     !.hasOpenBlock = IF tr[1].hasStarted THEN @ ELSE TRUE]
           /\ out'[1] = out[1] \o (IF tr[1].hasStarted THEN <<>>
                                    ELSE <<MessageStart(RequestModel),
                                           BlockStart(0, "text", Undef, Undef)>>) ]_vars

\* C13 for the payloads that are not the JSON null.
C13_UnrecognisedButNull ==
    [][ ( /\ Len(yielded'[1]) = Len(yielded[1]) + 1
          /\ yielded'[1][Len(yielded'[1])].data \in Unrecognised \ {JsonNull} )
        => /\ tr'[1] = [tr[1] EXCEPT !.hasStarted = TRUE,
                                     !.hasOpenBlock = IF tr[1].hasStarted THEN @ ELSE TRUE]
           /\ out'[1] = out[1] \o (IF tr[1].hasStarted THEN <<>>
                                    ELSE <<MessageStart(RequestModel),
                                           BlockStart(0, "text", Undef, Undef)>>) ]_vars

\* C14: nothing is emitted before the first payload arrives. Once it has, the
\* stream opens with message_start (the model name of the request, zero usage)
\* immediately followed by content_block_start of text block 0, ahead of
\* every event translated from that payload; there is no other message_start,
\* and no later block start (those come from the translator) has index 0.
C14_StartsOnFirstPayload ==
    LET events == out[1]
    IN /\ (yielded[1] = <<>> /\ tr[1].pc = "running") => events = <<>>
       /\ yielded[1] = <<>> =>
             Positions(events, "message_start") \cup Positions(events, "content_block_start") = {}
       /\ yielded[1] # <<>> =>
             /\ Len(events) >= 2
             /\ events[1] = [NoEvent EXCEPT !.type = "message_start",
                                            !.model = "claude-3-5-sonnet-20241022",
                                            !.input_tokens = Num(0), !.output_tokens = Num(0)]
             /\ events[2] = [NoEvent EXCEPT !.type = "content_block_start", !.index = 0,
                                            !.kind = "text"]
             /\ Positions(events, "message_start") = {1}
             /\ \A p \in Positions(events, "content_block_start") :
                   p # 2 => events[p].index # 0

\* Witness of C14: the first payload was a tool invocation; the two start
\* events precede the stop, start and stop translated from it.
C14_Witness ==
    /\ Len(yielded[1]) = 1
    /\ yielded[1][1].data.toolUse.present
    /\ Len(out[1]) = 5
    /\ out[1][1].type = "message_start"
    /\ out[1][2].type = "content_block_start"
    /\ out[1][3] = BlockStop(0)
    /\ out[1][4].kind = "tool_use"

\* The block starts of `events` that no stop has closed.
OpenBlocks(events) ==
    { p \in Positions(events, "content_block_start") : StopsOf(events, p) = {} }

\* The output-token count of the last usage report in `events` that carried
\* one (a count of 0 or none is no report), 0 if there is none.
LastOutputTokens(events) ==
    LET reports == { p \in Positions(events, "message_delta") : Truthy(events[p].output_tokens) }
    IN IF reports = {} THEN Num(0)
       ELSE events[CHOOSE p \in reports : \A q \in reports : q <= p].output_tokens

InOpenBlock(events, q) ==
    \E p \in Positions(events, "content_block_start") :
        /\ p < q
        /\ events[p].index = events[q].index
        /\ \A k \in (p + 1)..(q - 1) :
              ~(events[k].type = "content_block_stop" /\ events[k].index = events[q].index)

\* C28: every content_block_delta emitted in a stream targets a block that is
\* open at that moment: it comes after a content_block_start for its index
\* and before the matching content_block_stop, whatever the payloads.
C28_DeltaInOpenBlock ==
    \A q \in Positions(out[1], "content_block_delta") : InOpenBlock(out[1], q)

\* C28 for the streams in which no tool block has been started.
C28_DeltaInOpenBlockNoTool ==
    (\A p \in Positions(out[1], "content_block_start") : out[1][p].kind # "tool_use") =>
        \A q \in Positions(out[1], "content_block_delta") : InOpenBlock(out[1], q)

\* The state C28 fails in: a tool invocation, then a text payload; the text
\* delta is at index 0, after content_block_stop of block 0.
C28_DeltaAfterStop ==
    /\ Len(yielded[1]) = 2
    /\ yielded[1][1].data.toolUse.present
    /\ yielded[1][2].data.content = Str("a")
    /\ out[1] = <<MessageStart(RequestModel), BlockStart(0, "text", Undef, Undef),
                  BlockStop(0), BlockStart(1, "tool_use", GeneratedToolId, Str("search")),
                  BlockStop(1), BlockDelta(0, "text_delta", Str("a"))>>

\* ---------------------------------------------------------------- SpecShape
\* One streamKiroResponse generator that translates one payload of any shape:
\* every combination of the fields the translator dispatches on. The payload
\* is the first of the stream, or follows one earlier payload.
ContentChoices == {Undef, Str("a"), Str(""), Num(5)}
WrapperChoices == {NoWrap, Wrap(Str("b")), Wrap(Undef), Wrap(Str(""))}
MeteringChoices ==
    {<<Undef, Undef>>, <<Num(1), Str("credit")>>, <<Num(0), Str("credit")>>, <<Num(1), Undef>>}
TokenUsageChoices ==
    {<<NoTokenUsage, NoTokenUsage>>,
     <<TokenUsage(Num(3), Undef), NoTokenUsage>>,
     <<NoTokenUsage, TokenUsage(Num(5), Num(7))>>,
     <<NoTokenUsage, TokenUsage(Num(2), Num(0))>>}
ToolChoices ==
    {<<NoTool, NoTool>>,
     <<Tool(Str("abc"), Str("search"), ObjText("{\"q\":\"x\"}")), NoTool>>,
     <<NoTool, Tool(Undef, Str("search"), Undef)>>}
CodeChoices == {NoWrap, Wrap(Str("c")), Wrap(Undef)}

AllShapes ==
    { [EmptyObject EXCEPT !.content = c, !.assistantResponseEvent = w,
                          !.usage = m[1], !.unit = m[2],
                          !.metadataTokenUsage = u[1], !.tokenUsage = u[2],
                          !.toolUseEvent = tl[1], !.toolUse = tl[2],
                          !.codeEvent = ce] :
        c \in ContentChoices, w \in WrapperChoices, m \in MeteringChoices,
        u \in TokenUsageChoices, tl \in ToolChoices, ce \in CodeChoices }

ShapeInit ==
    /\ frames = <<>>
    /\ input = <<>>
    /\ rd = <<>>
    /\ yielded = << <<>> >>
    /\ sync = [pc |-> "idle", events |-> <<>>]
    /\ tr = <<StreamInit>>
    /\ out = << <<>> >>
    /\ fed = 0
    /\ tx = <<>>
    /\ http = <<>>

\* An earlier payload of the stream is translated.
ShapeSetup ==
    /\ fed = 0
    /\ tr[1].pc = "running"
    /\ \E event \in PayloadChoices :
          LET res == StreamOnPayload(tr[1], event)
          IN /\ tr' = [tr EXCEPT ![1] = res.state]
             /\ out' = [out EXCEPT ![1] = out[1] \o res.events]
             /\ yielded' = [yielded EXCEPT ![1] = Append(yielded[1], [bytes |-> <<>>, data |-> event])]
    /\ fed' = 1
    /\ UNCHANGED <<frames, input, rd, sync, tx, http>>

\* The payload of any shape is translated. sync keeps the step: the locals
\* before it, the payload, and the events the iteration yielded.
ShapeFeed ==
    /\ fed <= 1
    /\ tr[1].pc = "running"
    /\ \E event \in AllShapes :
          LET res == StreamOnPayload(tr[1], event)
          IN /\ tr' = [tr EXCEPT ![1] = res.state]
             /\ out' = [out EXCEPT ![1] = out[1] \o res.events]
             /\ yielded' = [yielded EXCEPT ![1] = Append(yielded[1], [bytes |-> <<>>, data |-> event])]
             /\ sync' = [pc |-> "fed",
                         events |-> <<[before |-> tr[1], data |-> event, emitted |-> res.events]>>]
    /\ fed' = 2
    /\ UNCHANGED <<frames, input, rd, tx, http>>

\* The reader is exhausted after that payload.
ShapeEnd ==
    /\ fed = 2
    /\ tr[1].pc = "running"
    /\ LET res == StreamOnEnd(tr[1])
       IN /\ tr' = [tr EXCEPT ![1] = res.state]
          /\ out' = [out EXCEPT ![1] = out[1] \o res.events]
    /\ fed' = 3
    /\ UNCHANGED <<frames, input, rd, yielded, sync, tx, http>>

ShapeNextStep == ShapeSetup \/ ShapeFeed \/ ShapeEnd

SpecShape == ShapeInit /\ [][ShapeNextStep]_vars

\* ---------------------------------------------------------------- claims on SpecShape
\* The step ShapeFeed has just taken: the payload, the locals before and after it, and
\* the events translated from the payload (the two start events of a first
\* payload are not translated from it).
ShapeFed == sync.pc = "fed" /\ fed = 2
ShapeData == sync.events[1].data
ShapeBefore == sync.events[1].before
ShapeAfter == tr[1]
ShapeTranslated ==
    LET emitted == sync.events[1].emitted
    IN IF ShapeBefore.hasStarted THEN emitted ELSE SubSeq(emitted, 3, Len(emitted))
\* The block index and the block-open flag the translator is called with.
ShapeIndex == ShapeBefore.contentBlockIndex
ShapeOpen == IF ShapeBefore.hasStarted THEN ShapeBefore.hasOpenBlock ELSE TRUE

\* The rules of the dispatch, as the specification numbers them. Rule 2 is
\* taken here for a wrapper with a non-empty inner content; a wrapper without
\* one is the subject of C23.
RuleMatches(eventData, rule) ==
    CASE rule = 1 -> eventData.content.t = "string"
      [] rule = 2 -> eventData.assistantResponseEvent.present
                        /\ Truthy(eventData.assistantResponseEvent.content)
      [] rule = 3 -> eventData.usage.t # "undefined" /\ eventData.unit.t # "undefined"
      [] rule = 4 -> eventData.metadataTokenUsage.present \/ eventData.tokenUsage.present
      [] rule = 5 -> eventData.toolUseEvent.present \/ eventData.toolUse.present
      [] rule = 6 -> eventData.codeEvent.present
      [] OTHER -> TRUE

FirstRule(eventData) ==
    CHOOSE rule \in 1..7 :
        /\ RuleMatches(eventData, rule)
        /\ \A earlier \in 1..(rule - 1) : ~RuleMatches(eventData, earlier)

EmptyWrapper(eventData) ==
    /\ eventData.assistantResponseEvent.present
    /\ ~Truthy(eventData.assistantResponseEvent.content)

\* What the events of one rule look like.
OneTextDelta(events, text) ==
    /\ Len(events) = 1
    /\ events[1].type = "content_block_delta"
    /\ events[1].kind = "text_delta"
    /\ events[1].text = text
IsToolBlock(events) ==
    /\ Cardinality(Positions(events, "content_block_start")) = 1
    /\ \A p \in Positions(events, "content_block_start") : events[p].kind = "tool_use"
    /\ \A p \in DOMAIN events :
          /\ events[p].type \in {"content_block_start", "content_block_delta", "content_block_stop"}
          /\ events[p].kind # "text_delta"

\* The events are those of the first rule the payload matches: one text delta
\* of the content (1), one text delta of the wrapper's content (2), nothing
\* (3), one message_delta (4), one tool block (5), one text delta of the code
\* (6), nothing (7).
EventsOfFirstRule(eventData, events) ==
    LET rule == FirstRule(eventData)
    IN CASE rule = 1 -> OneTextDelta(events, eventData.content)
         [] rule = 2 -> OneTextDelta(events, eventData.assistantResponseEvent.content)
         [] rule = 3 -> events = <<>>
         [] rule = 4 -> Len(events) = 1 /\ events[1].type = "message_delta"
         [] rule = 5 -> IsToolBlock(events)
         [] rule = 6 -> OneTextDelta(events, OrElse(eventData.codeEvent.content, Str("")))
         [] OTHER -> events = <<>>

\* C22: the events translated from a payload are those of the first rule, in
\* the order 1..7, that the payload matches, and of no other rule (a payload
\* whose wrapper has no inner content and that has no string content is left
\* to C23).
C22_FirstMatchWins ==
    (ShapeFed /\ ~(EmptyWrapper(ShapeData) /\ ~RuleMatches(ShapeData, 1))) =>
        EventsOfFirstRule(ShapeData, ShapeTranslated)

\* Witness of C22: a payload with a string content and a toolUseEvent gave
\* exactly one text delta and no tool block.
C22_Witness ==
    /\ ShapeFed
    /\ ShapeData.content = Str("a")
    /\ ShapeData.toolUseEvent.present
    /\ ShapeTranslated = <<BlockDelta(0, "text_delta", Str("a"))>>

\* C23: a payload whose assistant-response wrapper has no inner content, or
\* an empty one, is not consumed by rule 2: its events are those of the first
\* later rule it matches (nothing for metering, a message_delta for token
\* usage, a tool block for a tool invocation, a text delta for a code event).
C23_EmptyWrapperFallsThrough ==
    (ShapeFed /\ EmptyWrapper(ShapeData) /\ ~RuleMatches(ShapeData, 1)) =>
        EventsOfFirstRule(ShapeData, ShapeTranslated)

\* C23 for the payloads that match no rule after rule 2: nothing is emitted.
C23_EmptyWrapperAlone ==
    (ShapeFed /\ EmptyWrapper(ShapeData) /\ FirstRule(ShapeData) = 7) =>
        ShapeTranslated = <<>>

\* The state C23 fails in: an empty wrapper and a tool invocation in one
\* payload, and no event translated from it.
C23_ToolDropped ==
    /\ ShapeFed
    /\ ShapeData.assistantResponseEvent = Wrap(Undef)
    /\ ShapeData.toolUse.present
    /\ FirstRule(ShapeData) = 5
    /\ ShapeTranslated = <<>>

\* C24: a payload whose content is a string, the empty string included, is
\* translated to exactly one content_block_delta of type text_delta at the
\* current block index with that text, and the step leaves the current block
\* index and the block-open flag as the translator found them.
C24_PlainText ==
    (ShapeFed /\ ShapeData.content.t = "string") =>
        /\ ShapeTranslated = <<BlockDelta(ShapeIndex, "text_delta", ShapeData.content)>>
        /\ ShapeAfter.contentBlockIndex = ShapeIndex
        /\ ShapeAfter.hasOpenBlock = ShapeOpen

\* Witness of C24: the empty string gave one text delta with the empty text,
\* in a stream that had already started.
C24_Witness ==
    /\ ShapeFed
    /\ ShapeBefore.hasStarted
    /\ ShapeData.content = Str("")
    /\ ShapeTranslated = <<BlockDelta(0, "text_delta", Str(""))>>
    /\ ShapeAfter.hasOpenBlock = ShapeBefore.hasOpenBlock

\* C25: a payload that is a usage/metering payload (a usage value together
\* with a unit, and of no earlier shape) is translated to no event, and the
\* step leaves the block index, the block-open flag and the tracked input and
\* output token counts as they were.
C25_MeteringSilent ==
    (ShapeFed /\ FirstRule(ShapeData) = 3) =>
        /\ ShapeTranslated = <<>>
        /\ ShapeAfter.contentBlockIndex = ShapeIndex
        /\ ShapeAfter.hasOpenBlock = ShapeOpen
        /\ ShapeAfter.inputTokens = ShapeBefore.inputTokens
        /\ ShapeAfter.outputTokens = ShapeBefore.outputTokens

\* Witness of C25: a metering payload that also carries token usage, after a
\* token-usage payload had set the tracked counts.
C25_Witness ==
    /\ ShapeFed
    /\ ShapeData.usage = Num(1) /\ ShapeData.unit = Str("credit")
    /\ ShapeData.metadataTokenUsage.present
    /\ FirstRule(ShapeData) = 3
    /\ ShapeBefore.outputTokens = Num(7)
    /\ ShapeAfter.outputTokens = Num(7)
    /\ out[1][Len(out[1])].type = "message_delta"

\* A token-usage payload: one whose first matching rule is rule 4 (a payload
\* with an empty wrapper is C23's subject and is left out), and its counts.
IsTokenUsage(eventData) == FirstRule(eventData) = 4 /\ ~EmptyWrapper(eventData)
UsageOf(eventData) ==
    IF eventData.metadataTokenUsage.present THEN eventData.metadataTokenUsage
    ELSE eventData.tokenUsage
TokenCount(v) == IF v.t = "number" THEN v.n ELSE 0

\* The output-token count of the most recent token-usage payload, 0 if none.
RECURSIVE LastOutputCount(_)
LastOutputCount(payloads) ==
    IF payloads = <<>> THEN 0
    ELSE LET last == payloads[Len(payloads)].data
         IN IF IsTokenUsage(last) THEN TokenCount(UsageOf(last).outputTokens)
            ELSE LastOutputCount(SubSeq(payloads, 1, Len(payloads) - 1))

\* The first half of C26: a token-usage payload is translated to exactly one
\* message_delta with its input and output token counts, and the step leaves
\* the block index and the block-open flag as they were.
C26_OneUsageDelta ==
    (ShapeFed /\ IsTokenUsage(ShapeData)) =>
        /\ ShapeTranslated = <<UsageDelta(Num(TokenCount(UsageOf(ShapeData).inputTokens)),
                                          Num(TokenCount(UsageOf(ShapeData).outputTokens)))>>
        /\ ShapeAfter.contentBlockIndex = ShapeIndex
        /\ ShapeAfter.hasOpenBlock = ShapeOpen

\* The second half of C26: the final message_delta of a stream that ended
\* carries the output-token count of the most recent token-usage payload of
\* the stream, 0 if there was none.
C26_FinalIsMostRecent ==
    tr[1].pc = "done" =>
        LET final == out[1][Len(out[1]) - 1]
        IN /\ final.type = "message_delta"
           /\ final.output_tokens = Num(LastOutputCount(yielded[1]))

\* C26: a token-usage payload produces exactly one message_delta carrying its
\* input/output token counts and no block transition, and the final
\* message_delta's output_tokens is the output-token count of the most recent
\* token-usage payload of the stream (0 if there was none).
C26_TokenUsage == C26_OneUsageDelta /\ C26_FinalIsMostRecent

\* What holds instead of the second half: the final message_delta carries the
\* most recent output-token count that was not 0 (0 if there was none).
RECURSIVE LastNonZeroOutputCount(_)
LastNonZeroOutputCount(payloads) ==
    IF payloads = <<>> THEN 0
    ELSE LET last == payloads[Len(payloads)].data
         IN IF IsTokenUsage(last) /\ TokenCount(UsageOf(last).outputTokens) # 0
            THEN TokenCount(UsageOf(last).outputTokens)
            ELSE LastNonZeroOutputCount(SubSeq(payloads, 1, Len(payloads) - 1))

C26_FinalIsLastNonZero ==
    tr[1].pc = "done" =>
        LET final == out[1][Len(out[1]) - 1]
        IN /\ final.type = "message_delta"
           /\ final.output_tokens = Num(LastNonZeroOutputCount(yielded[1]))

\* The state C26 fails in: usage {5, 7}, then usage {2, 0}, then the end; the
\* final message_delta says 7.
C26_StaleCount ==
    /\ tr[1].pc = "done"
    /\ Len(yielded[1]) = 2
    /\ yielded[1][1].data.tokenUsage = TokenUsage(Num(5), Num(7))
    /\ yielded[1][2].data.tokenUsage = TokenUsage(Num(2), Num(0))
    /\ IsTokenUsage(yielded[1][2].data)
    /\ out[1][Len(out[1]) - 1] = FinalDelta(Num(7))

\* A tool-invocation payload: one whose first matching rule is rule 5 (a
\* payload with an empty wrapper is C23's subject and is left out).
IsToolInvocation(eventData) == FirstRule(eventData) = 5 /\ ~EmptyWrapper(eventData)

\* C27: after a tool-invocation payload has been processed, the current block
\* index is the index of the tool block just emitted, the previous current
\* index + 1, and no block is open.
C27_IndexAdvanced ==
    (ShapeFed /\ IsToolInvocation(ShapeData)) =>
        /\ \E p \in Positions(ShapeTranslated, "content_block_start") :
              ShapeTranslated[p].index = ShapeAfter.contentBlockIndex
        /\ ShapeAfter.contentBlockIndex = ShapeIndex + 1
        /\ ~ShapeAfter.hasOpenBlock

\* What holds of C27: the tool block is emitted at the previous current index
\* + 1 and no block is open afterwards.
C27_BlockClosed ==
    (ShapeFed /\ IsToolInvocation(ShapeData)) =>
        /\ \E p \in Positions(ShapeTranslated, "content_block_start") :
              ShapeTranslated[p].index = ShapeIndex + 1
        /\ ~ShapeAfter.hasOpenBlock

\* The state C27 fails in: a tool block was emitted at index 1 and the
\* current block index is still 0.
C27_IndexStale ==
    /\ ShapeFed
    /\ IsToolInvocation(ShapeData)
    /\ \E p \in DOMAIN ShapeTranslated : ShapeTranslated[p] = BlockStart(1, "tool_use", Str("abc"), Str("search"))
    /\ ShapeAfter.contentBlockIndex = 0

\* ---------------------------------------------------------------- request transport
MAX_RETRIES == 3

\* error.message.includes('authentication') || error.message.includes('expired')
ErrAuthExpired == "Kiro authentication expired. Please log in again."
ErrNoToken == "No Kiro authentication token available. Please log in to Kiro CLI first."
ErrNetwork == "fetch failed"
ErrApi == "Kiro API error 400: bad request"
ErrMaxRetries == "Max retries exceeded"

IsAuthMessage(message) == message \in {ErrAuthExpired, ErrNoToken}

\* The locals of one sendKiroMessageStream generator. pc: "auth" = awaiting
\* getKiroAuthData; "fetch" = awaiting fetch of attempt `attempt`; "streaming" =
\* inside yield* streamKiroResponse; "returned"; "threw" (with `error`); "hung" =
\* the reader below never yields again. History: fetches = upstream requests
\* issued; handed = a response body was handed to streamKiroResponse;
\* refetched = an upstream request was issued after that.
TxInit ==
    [pc |-> "auth", attempt |-> 0, fetches |-> 0, handed |-> FALSE,
     refetched |-> FALSE, error |-> ""]

TxThrow(t, message) == [t EXCEPT !.pc = "threw", !.error = message]

\* `continue` in the retry loop: attempt++, then the loop test.
TxContinue(t) ==
    IF t.attempt + 1 < MAX_RETRIES
    THEN [t EXCEPT !.pc = "fetch", !.attempt = t.attempt + 1]
    ELSE TxThrow(t, ErrMaxRetries)

\* The catch block of the retry loop (lines 102-114).
TxCatch(t, message) ==
    IF IsAuthMessage(message) THEN TxThrow(t, message)
    ELSE IF t.attempt = MAX_RETRIES - 1 THEN TxThrow(t, message)
    ELSE [t EXCEPT !.pc = "fetch", !.attempt = t.attempt + 1]

FetchOutcomes == {"network", "401", "429", "5xx", "other", "ok"}

\* One pass of the loop body (lines 66-99) up to the hand-over of the
\* response to streamKiroResponse, for one outcome of fetch.
TxOnFetch(t, outcome) ==
    LET t1 == [t EXCEPT !.fetches = t.fetches + 1, !.refetched = t.refetched \/ t.handed]
    IN CASE outcome = "network" -> TxCatch(t1, ErrNetwork)
         [] outcome = "401" -> TxCatch(t1, ErrAuthExpired)
         [] outcome = "429" -> TxContinue(t1)
         [] outcome = "5xx" -> TxContinue(t1)
         [] outcome = "other" -> TxCatch(t1, ErrApi)
         [] OTHER -> [t1 EXCEPT !.pc = "streaming", !.handed = TRUE]

\* ---------------------------------------------------------------- HTTP handler
\* One run of app.post('/v1/messages') and its response. pc: "start";
\* "streaming" = inside for await over sendKiroMessageStream; "nonstream" =
\* awaiting sendKiroMessage; "returned". written: the `event:` names written
\* to the response; ended: calls that ended the response (res.end, res.json).
HttpInit ==
    [pc |-> "start", stream |-> FALSE, headersSent |-> FALSE, status |-> 200,
     written |-> <<>>, ended |-> 0]

\* res.status(code).json(body)
HttpJson(h, status) ==
    [h EXCEPT !.pc = "returned", !.headersSent = TRUE, !.status = status, !.ended = h.ended + 1]

\* res.write(`event: ${event.type}...`) for each event the generator yields.
HttpWrite(h, events) ==
    [h EXCEPT !.written = h.written \o [i \in DOMAIN events |-> events[i].type]]

\* The generator is exhausted: res.end() (line 202).
HttpOnStreamEnd(h) == [h EXCEPT !.pc = "returned", !.ended = h.ended + 1]

HttpOnStreamError_NoEnd(h) == [h EXCEPT !.pc = "returned", !.written = Append(h.written, "error")]

\* catch (streamError): write one error event, res.end() (lines 204-214).
HttpOnStreamError(h) ==
    [h EXCEPT !.pc = "returned", !.written = Append(h.written, "error"), !.ended = h.ended + 1]

\* The handler's reaction to what the generator did in one step: the events it
\* yielded are written; if it returned or threw, the response is ended.
HttpOnGenerator(h, t, events) ==
    LET h1 == HttpWrite(h, events)
    IN CASE t.pc = "returned" -> HttpOnStreamEnd(h1)
         [] t.pc = "threw" -> HttpOnStreamError(h1)
         [] OTHER -> h1

\* ---------------------------------------------------------------- SpecHttp
\* One streaming or non-streaming request through the handler, the transport
\* and the orchestrator; the reader is seen through what it hands over.
HttpPayloads ==
    { [EmptyObject EXCEPT !.content = Str("a")],
      [EmptyObject EXCEPT !.toolUse = Tool(Undef, Str("search"), Undef)],
      JsonNull }

HttpSpecInit ==
    /\ frames = <<>>
    /\ input = <<>>
    /\ rd = <<>>
    /\ yielded = <<>>
    /\ sync = [pc |-> "idle", events |-> <<>>]
    /\ tr = <<StreamInit>>
    /\ out = << <<>> >>
    /\ fed = 0
    /\ tx = TxInit
    /\ http = HttpInit

\* The handler runs to its first suspension: ensureKiroReady throws (500 JSON),
\* the body has no messages array (400 JSON), or the request is dispatched.
HttpReceive ==
    /\ http.pc = "start"
    /\ \E kind \in {"notReady", "invalid", "stream", "nonstream"} :
          http' = CASE kind = "notReady" -> HttpJson(http, 500)
                    [] kind = "invalid" -> HttpJson(http, 400)
                    [] kind = "stream" ->
                          [http EXCEPT !.pc = "streaming", !.stream = TRUE, !.headersSent = TRUE]
                    [] OTHER -> [http EXCEPT !.pc = "nonstream"]
    /\ UNCHANGED <<frames, input, rd, yielded, sync, tr, out, fed, tx>>

\* sendKiroMessage returned (res.json) or threw (outer catch, headers not sent).
HttpNonStream ==
    /\ http.pc = "nonstream"
    /\ \E ok \in BOOLEAN : http' = HttpJson(http, IF ok THEN 200 ELSE 500)
    /\ UNCHANGED <<frames, input, rd, yielded, sync, tr, out, fed, tx>>

\* getKiroAuthData resolved (with or without a token) or rejected.
TxAuth ==
    /\ http.pc = "streaming" /\ tx.pc = "auth"
    /\ \E outcome \in {"ok", "noToken", "throws"} :
          tx' = CASE outcome = "ok" -> [tx EXCEPT !.pc = "fetch"]
                  [] outcome = "noToken" -> TxThrow(tx, ErrNoToken)
                  [] OTHER -> TxThrow(tx, ErrRead)
    /\ http' = HttpOnGenerator(http, tx', <<>>)
    /\ UNCHANGED <<frames, input, rd, yielded, sync, tr, out, fed>>

\* fetch of the current attempt settled.
TxFetch ==
    /\ http.pc = "streaming" /\ tx.pc = "fetch"
    /\ \E outcome \in FetchOutcomes : tx' = TxOnFetch(tx, outcome)
    /\ tr' = <<StreamInit>>
    /\ out' = << <<>> >>
    /\ fed' = 0
    /\ http' = HttpOnGenerator(http, tx', <<>>)
    /\ UNCHANGED <<frames, input, rd, yielded, sync>>

\* What sendKiroMessageStream does with one step of streamKiroResponse.
TxOnStream(t, s) ==
    CASE s.pc = "done" -> [t EXCEPT !.pc = "returned"]
      [] s.pc = "failed" -> TxCatch(t, s.error)
      [] OTHER -> t

TxStreamStep(res) ==
    /\ tr' = <<res.state>>
    /\ out' = <<out[1] \o res.events>>
    /\ tx' = TxOnStream(tx, res.state)
    /\ http' = HttpOnGenerator(http, tx', res.events)
    /\ UNCHANGED <<frames, input, rd, yielded, sync>>

\* The reader yields a payload to streamKiroResponse.
TxStreamPayload ==
    /\ http.pc = "streaming" /\ tx.pc = "streaming"
    /\ fed < MaxPayloads
    /\ fed' = fed + 1
    /\ \E event \in HttpPayloads : TxStreamStep(StreamOnPayload(tr[1], event))

\* The response body ends.
TxStreamEnd ==
    /\ http.pc = "streaming" /\ tx.pc = "streaming"
    /\ fed' = fed
    /\ TxStreamStep(StreamOnEnd(tr[1]))

\* A read of the response body fails.
TxStreamFails ==
    /\ http.pc = "streaming" /\ tx.pc = "streaming"
    /\ fed' = fed
    /\ TxStreamStep(StreamOnError(tr[1]))

\* The reader enters the scan that never advances: nothing is yielded any more.
TxStreamHangs ==
    /\ http.pc = "streaming" /\ tx.pc = "streaming"
    /\ tx' = [tx EXCEPT !.pc = "hung"]
    /\ UNCHANGED <<frames, input, rd, yielded, sync, tr, out, fed, http>>

HttpNextStep ==
    \/ HttpReceive
    \/ HttpNonStream
    \/ TxAuth
    \/ TxFetch
    \/ TxStreamPayload
    \/ TxStreamEnd
    \/ TxStreamFails
    \/ TxStreamHangs

SpecHttp == HttpSpecInit /\ [][HttpNextStep]_vars

\* ---------------------------------------------------------------- claims on SpecHttp
CountOf(names, name) == Cardinality({ p \in DOMAIN names : names[p] = name })

\* C8: once a response body has been handed to streamKiroResponse no further
\* upstream request is issued, and the client never receives a second
\* message_start.
C8_NoRetryAfterHandoff ==
    /\ ~tx.refetched
    /\ CountOf(http.written, "message_start") <= 1

U32BE(n) ==
    <<(n \div 16777216) % 256, (n \div 65536) % 256, (n \div 256) % 256, n % 256>>

\* A frame descriptor: the declared totalLength and headersLength and the
\* header and payload bytes that are sent.
Frame(totalLength, headers, payload) ==
    [totalLength |-> totalLength, headersLength |-> Len(headers),
     headers |-> headers, payload |-> payload]

\* The frame an encoder produces: totalLength = headersLength + payloadLength + 16.
WellFormed(headers, payload) == Frame(Len(headers) + Len(payload) + 16, headers, payload)

IsWellFormed(f) ==
    /\ f.headersLength = Len(f.headers)
    /\ f.totalLength = Len(f.headers) + Len(f.payload) + 16

EncodeFrame(f) ==
    U32BE(f.totalLength) \o U32BE(f.headersLength) \o <<0, 0, 0, 0>>
        \o f.headers \o f.payload \o <<0, 0, 0, 0>>

RECURSIVE EncodeFrames(_)
EncodeFrames(fs) ==
    IF fs = <<>> THEN <<>> ELSE EncodeFrame(Head(fs)) \o EncodeFrames(Tail(fs))

\* Frames with correct lengths: payloads of length 0, 1 and N, with and without headers.
GoodFrames ==
    { WellFormed(<<>>, TxtContentA), WellFormed(<<7, 7>>, TxtX), WellFormed(<<>>, <<>>),
      WellFormed(<<7>>, TxtBad) }

\* Frames an upstream can send that no encoder produces: a JSON null payload
\* is well formed as a frame; the others declare lengths that do not match.
OddFrames ==
    { WellFormed(<<>>, TxtNull),
      Frame(0, <<>>, <<>>),                                   \* totalLength = 0
      Frame(12, <<>>, <<>>),                                  \* totalLength < 16
      [Frame(17, <<>>, <<120>>) EXCEPT !.headersLength = 5],  \* headers longer than the frame
      Frame(40, <<>>, TxtX) }                                 \* totalLength beyond the bytes sent

FrameChoices == GoodFrames \cup OddFrames

FrameLists(S) == UNION { [1..n -> S] : n \in 0..MaxFrames }

\* The byte source delivers the encoded frames, less `cut` bytes at the end.
Upstream(fs, cut) ==
    LET bytes == EncodeFrames(fs) IN SubSeq(bytes, 1, Len(bytes) - cut)

\* ---------------------------------------------------------------- SpecFrame
\* One call of parseEventStream on a buffer, then one reader over the same
\* bytes, consumed by a caller that only collects what it yields.

\* The sizes of the chunks a read delivers (the last chunk is what is left):
\* single bytes, pieces of a prelude, exactly a 16-byte frame, and chunks
\* that hold several frames.
ChunkSizes == {1, 2, 5, 16, MaxChunk}
FrameInit ==
    /\ \E fs \in FrameLists(FrameChoices), cut \in 0..MaxCut :
          /\ cut <= Len(EncodeFrames(fs))
          /\ frames = <<fs>>
          /\ input = <<Upstream(fs, cut)>>
    /\ rd = <<ReaderInit>>
    /\ yielded = << <<>> >>
    /\ sync = [pc |-> "idle", events |-> <<>>]
    /\ tr = <<>>
    /\ out = <<>>
    /\ fed = 0
    /\ tx = <<>>
    /\ http = <<>>

Collect(r, next) ==
    IF next.pc = "yielded" THEN Append(yielded[r], next.item) ELSE yielded[r]

\* await reader.read() delivers the next n bytes of the source.
FrameRead(r) ==
    /\ sync.pc # "idle"
    /\ rd[r].pc = "read"
    /\ rd[r].pos < Len(input[r])
    /\ \E n \in ChunkSizes :
          LET next == ReaderOnChunk(rd[r], SubSeq(input[r], rd[r].pos + 1,
                                                  Min(rd[r].pos + n, Len(input[r]))))
          IN /\ rd' = [rd EXCEPT ![r] = next]
             /\ yielded' = [yielded EXCEPT ![r] = Collect(r, next)]
    /\ UNCHANGED <<frames, input, sync, tr, out, fed, tx, http>>

\* The collecting caller asks for the next payload.
FrameNext(r) ==
    /\ rd[r].pc = "yielded"
    /\ LET next == ReaderOnNext(rd[r])
       IN /\ rd' = [rd EXCEPT ![r] = next]
          /\ yielded' = [yielded EXCEPT ![r] = Collect(r, next)]
    /\ UNCHANGED <<frames, input, sync, tr, out, fed, tx, http>>

\* The source is exhausted.
FrameEnd(r) ==
    /\ sync.pc # "idle"
    /\ rd[r].pc = "read"
    /\ rd[r].pos = Len(input[r])
    /\ rd' = [rd EXCEPT ![r] = ReaderOnDone(rd[r])]
    /\ UNCHANGED <<frames, input, yielded, sync, tr, out, fed, tx, http>>

\* parseEventStream(input) is called on the whole buffer.
FrameParseWhole ==
    /\ sync.pc = "idle"
    /\ LET res == parseEventStream(input[1])
       IN sync' = [pc |-> IF res.returns THEN "returned" ELSE "spin", events |-> res.events]
    /\ UNCHANGED <<frames, input, rd, yielded, tr, out, fed, tx, http>>

FrameNextStep ==
    \/ FrameRead(1)
    \/ FrameNext(1)
    \/ FrameEnd(1)
    \/ FrameParseWhole

SpecFrame == FrameInit /\ [][FrameNextStep]_vars

\* ---------------------------------------------------------------- claims on SpecFrame
DataOf(items) == [i \in DOMAIN items |-> items[i].data]
BytesOf(items) == [i \in DOMAIN items |-> items[i].bytes]

IsPrefix(a, b) == Len(a) <= Len(b) /\ a = SubSeq(b, 1, Len(a))

AllWellFormed(fs) == \A i \in DOMAIN fs : IsWellFormed(fs[i])

\* The frames of fs that lie entirely within the first n encoded bytes.
RECURSIVE CompleteFrames(_, _)
CompleteFrames(fs, n) ==
    IF fs = <<>> \/ Len(EncodeFrame(Head(fs))) > n THEN <<>>
    ELSE <<Head(fs)>> \o CompleteFrames(Tail(fs), n - Len(EncodeFrame(Head(fs))))

\* The payloads of fs that are not empty, in order.
RECURSIVE Payloads(_)
Payloads(fs) ==
    IF fs = <<>> THEN <<>>
    ELSE (IF Head(fs).payload = <<>> THEN <<>> ELSE <<Head(fs).payload>>) \o Payloads(Tail(fs))

\* C4: once the incremental reader has finished over any chunking of a buffer
\* and parseEventStream has returned on the whole buffer, both have produced
\* the same ordered sequence of payloads.
C4_IncrementalEquivalence ==
    (rd[1].pc = "done" /\ sync.pc = "returned")
        => DataOf(yielded[1]) = DataOf(sync.events)

\* C5: for frames produced by an encoder (totalLength = headersLength +
\* payloadLength + 16), the byte range the decoder extracts from a frame is
\* exactly the encoded payload: parseEventMessage on the first frame, and the
\* reader over any chunking for every frame delivered in full (a payload of
\* length 0 decodes to the empty payload and is not yielded).
C5_RoundTrip ==
    AllWellFormed(frames[1]) =>
        /\ rd[1].pc = "done" =>
              BytesOf(yielded[1]) = Payloads(CompleteFrames(frames[1], Len(input[1])))
        /\ CompleteFrames(frames[1], Len(input[1])) # <<>> =>
              LET m == parseEventMessage(input[1], 0)
              IN /\ m.complete
                 /\ m.bytes = frames[1][1].payload
                 /\ m.nextOffset = Len(EncodeFrame(frames[1][1]))

\* Witness of C5: a frame with headers and a payload of length N were decoded
\* after a frame had been held incomplete across a chunk boundary.
C5_Witness ==
    /\ rd[1].pc = "done"
    /\ rd[1].partial
    /\ frames[1] = <<WellFormed(<<7, 7>>, TxtX), WellFormed(<<>>, TxtContentA)>>
    /\ BytesOf(yielded[1]) = <<TxtX, TxtContentA>>

\* C6: whenever the reader is suspended at a read (or has finished), it has
\* yielded exactly the payloads of the frames received in full, once each and
\* in stream order, and its buffer holds every byte received after the last
\* of them: the bytes of an incomplete frame are kept.
C6_IncompleteKept ==
    (AllWellFormed(frames[1]) /\ rd[1].pc \in {"read", "done"}) =>
        LET whole == CompleteFrames(frames[1], rd[1].pos)
        IN /\ BytesOf(yielded[1]) = Payloads(whole)
           /\ rd[1].buffer = SubSeq(input[1], Len(EncodeFrames(whole)) + 1, rd[1].pos)

\* Witness of C6: a frame whose declared totalLength exceeded the bytes
\* accumulated was held, completed by later chunks and yielded.
C6_Witness ==
    /\ rd[1].pc = "done"
    /\ rd[1].partial
    /\ frames[1] = <<WellFormed(<<>>, TxtContentA)>>
    /\ Len(yielded[1]) = 1

\* C7: neither decoder enters a scan that does not advance: every consumed
\* frame moves the offset forward, so parseEventStream returns and the reader
\* finishes.
C7_Terminates == rd[1].pc # "spin" /\ sync.pc # "spin"

\* What a payload of the model's frames is delivered as.
DeliveredAs(payload) ==
    CASE payload = TxtX -> RawWrapper(<<120>>)
      [] payload = TxtBad -> RawWrapper(<<65533, 123>>)
      [] payload = TxtContentA -> [EmptyObject EXCEPT !.content = Str("a")]
      [] OTHER -> JsonNull

\* C12: a payload that is not valid JSON does not abort decoding. Both
\* decoders deliver it as the wrapper {raw: decoded text} at its place in the
\* stream, and the complete frames after it are still decoded, in order.
C12_RawFallback ==
    (AllWellFormed(frames[1]) /\ \A i \in DOMAIN frames[1] : frames[1][i].payload # TxtNull) =>
        LET ps == Payloads(CompleteFrames(frames[1], Len(input[1])))
            expected == [i \in DOMAIN ps |-> DeliveredAs(ps[i])]
        IN /\ sync.pc \in {"idle", "returned"}
           /\ sync.pc = "returned" => DataOf(sync.events) = expected
           /\ rd[1].pc \in {"read", "yielded", "done"}
           /\ IsPrefix(DataOf(yielded[1]), expected)
           /\ rd[1].pc = "done" => DataOf(yielded[1]) = expected

\* Witness of C12: a payload that is neither UTF-8 nor JSON came first and was
\* delivered as a raw wrapper by both decoders, followed by the decoded
\* payload of the frame after it.
C12_Witness ==
    /\ frames[1] = <<WellFormed(<<7>>, TxtBad), WellFormed(<<>>, TxtContentA)>>
    /\ rd[1].pc = "done"
    /\ DataOf(yielded[1]) = <<RawWrapper(<<65533, 123>>), [EmptyObject EXCEPT !.content = Str("a")]>>
    /\ DataOf(sync.events) = DataOf(yielded[1])

\* The payloads a reader yields on `bytes` delivered in one chunk, up to its
\* next read (or up to a scan that stops advancing).
RECURSIVE YieldsFrom(_, _)
YieldsFrom(reader, items) ==
    IF reader.pc = "yielded"
    THEN YieldsFrom(ReaderOnNext(reader), Append(items, reader.item))
    ELSE [pc |-> reader.pc, items |-> items]

YieldsOf(bytes) == YieldsFrom(ReaderOnChunk(ReaderInit, bytes), <<>>)

\* The buffer begins with a complete frame whose computed payload length is
\* zero or negative.
ControlFrameFirst == parseEventMessage(input[1], 0).complete /\ parseEventMessage(input[1], 0).bytes = <<>>

\* Both decoders have treated the frame at the front of the buffer as an empty
\* frame: no error, nothing delivered for it, and the scan has gone on to the
\* bytes from offset + totalLength on (`rest`): what a decoder delivers is what
\* it delivers on rest, and a decoder that does not finish is held up in rest,
\* not on this frame.
SkippedFirst ==
    LET buffer == input[1]
        m == parseEventMessage(buffer, 0)
        rest == SubSeq(buffer, GetUint32(buffer, 0) + 1, Len(buffer))
    IN /\ ~m.error /\ m.data = JsonNull
       /\ sync.pc = "spin" => Len(rest) < Len(buffer) /\ ~parseEventStream(rest).returns
       /\ sync.pc = "returned" =>
             parseEventStream(rest).returns /\ sync.events = parseEventStream(rest).events
       /\ rd[1].pc = "spin" => Len(rest) < Len(buffer) /\ YieldsOf(rest).pc = "spin"
       /\ rd[1].pc = "done" =>
             YieldsOf(rest).pc = "read" /\ yielded[1] = YieldsOf(rest).items

\* C18: a complete frame whose computed payload length is zero or negative
\* raises no error, emits no payload, and the scan continues at
\* offset + totalLength with the frames after it decoded normally.
C18_ControlFrameSkipped == ControlFrameFirst => SkippedFirst

\* C18 for the frames that declare a totalLength above 0.
C18_ControlFrameSkippedUnlessZero ==
    (ControlFrameFirst /\ GetUint32(input[1], 0) > 0) => SkippedFirst

\* The offset behind the last frame of `bytes` that lies in it entirely,
\* going from frame to frame by the declared totalLength from `offset` on.
RECURSIVE ConsumedUpTo(_, _)
ConsumedUpTo(bytes, offset) ==
    IF Len(bytes) - offset < 12 THEN offset
    ELSE LET declared == GetUint32(bytes, offset)
         IN IF declared = 0 \/ declared > Len(bytes) - offset THEN offset
            ELSE ConsumedUpTo(bytes, offset + declared)

\* C21: whenever the reader is suspended at a read, its buffer holds no
\* complete frame at its start (it is shorter than 12 bytes, or shorter than
\* the totalLength its first 4 bytes declare) and it is exactly the bytes
\* received so far that follow the last consumed frame; for any bytes, with
\* lengths that match the frames sent or not, and any chunking.
C21_BufferIsTail ==
    rd[1].pc = "read" =>
        LET buffer == rd[1].buffer
            received == SubSeq(input[1], 1, rd[1].pos)
        IN /\ Len(buffer) < 12 \/ Len(buffer) < GetUint32(buffer, 0)
           /\ buffer = SubSeq(received, ConsumedUpTo(received, 0) + 1, Len(received))

\* Witness of C21: the reader is suspended at a read after consuming a
\* frame of 31 bytes and yielding its payload, holding the prelude and more
\* of a second frame that is not complete yet.
C21_Witness ==
    /\ rd[1].pc = "read"
    /\ frames[1] = <<WellFormed(<<>>, TxtContentA), WellFormed(<<7, 7>>, TxtX)>>
    /\ Len(yielded[1]) = 1
    /\ Len(rd[1].buffer) >= 12
    /\ rd[1].pos = 31 + Len(rd[1].buffer)
    /\ rd[1].pos < Len(input[1])

\* ---------------------------------------------------------------- SpecMessage
\* One call of parseEventMessage(buffer, offset), or one run of the reader's
\* scan from an offset, on a buffer at any offset of it (frame boundaries and
\* every place between them). sync holds the call: its offset and what it
\* returned.
\* A frame whose headersLength field holds 7F FF FF FF.
HugeFrames == { [Frame(17, <<>>, <<120>>) EXCEPT !.headersLength = 2147483647] }

MessageInit ==
    /\ \E fs \in FrameLists(FrameChoices \cup HugeFrames), cut \in 0..MaxCut :
          /\ cut <= Len(EncodeFrames(fs))
          /\ frames = <<fs>>
          /\ input = <<Upstream(fs, cut)>>
    /\ rd = <<>>
    /\ yielded = <<>>
    /\ sync = [pc |-> "idle", events |-> <<>>]
    /\ tr = <<>>
    /\ out = <<>>
    /\ fed = 0
    /\ tx = <<>>
    /\ http = <<>>

\* parseEventMessage(input, offset) is called.
MessageCall ==
    /\ sync.pc = "idle"
    /\ \E offset \in 0..Len(input[1]) :
          sync' = [pc |-> "called",
                   events |-> <<[offset |-> offset, result |-> parseEventMessage(input[1], offset)]>>]
    /\ UNCHANGED <<frames, input, rd, yielded, tr, out, fed, tx, http>>

\* The reader's inner loop runs over input from offset to its next yield or exit.
MessageScan ==
    /\ sync.pc = "idle"
    /\ \E offset \in 0..Len(input[1]) :
          sync' = [pc |-> "scanned",
                   events |-> <<[offset |-> offset, result |-> ScanToYield(input[1], offset)]>>]
    /\ UNCHANGED <<frames, input, rd, yielded, tr, out, fed, tx, http>>

MessageNextStep == MessageCall \/ MessageScan

SpecMessage == MessageInit /\ [][MessageNextStep]_vars

\* C17: a call of parseEventMessage returns null exactly when fewer than 12
\* bytes remain from the offset or the declared totalLength reaches past the
\* end of the buffer; any other call returns a result (a decoded payload, or
\* the null data of an empty frame), and no call throws.
C17_NullIffIncomplete ==
    sync.pc = "called" =>
        LET offset == sync.events[1].offset
            m == sync.events[1].result
            remaining == Len(input[1]) - offset
        IN /\ ~m.error
           /\ ~m.complete <=> (remaining < 12 \/ GetUint32(input[1], offset) > remaining)
           /\ m.complete =>
                 \/ m.bytes = <<>> /\ m.data = JsonNull
                 \/ m.bytes # <<>> /\ m.data \in {DeliveredAs(m.bytes), RawWrapper(TextDecode(m.bytes))}

\* Witness of C17: a call at the start of a frame that lacks its last byte:
\* 18 bytes remain, the prelude declares 19, and the call returned null.
C17_Witness ==
    /\ sync.pc = "called"
    /\ frames[1] = <<WellFormed(<<>>, TxtContentA), WellFormed(<<7, 7>>, TxtX)>>
    /\ Len(input[1]) = 49
    /\ sync.events[1].offset = 31
    /\ ~sync.events[1].result.complete

\* C19: a call of parseEventMessage that decodes a frame (a payload or an
\* empty frame) returns nextOffset = offset + totalLength, and after the
\* call the buffer is as the source delivered it.
C19_NextOffset ==
    /\ sync.pc = "called" =>
          LET offset == sync.events[1].offset
              m == sync.events[1].result
          IN m.complete => m.nextOffset = offset + GetUint32(input[1], offset)
    /\ \E cut \in 0..MaxCut : input[1] = Upstream(frames[1], cut)

\* Witness of C19: a call at offset 31, where an empty frame of 16 bytes
\* follows a frame of 31 bytes, returned null data and nextOffset 47.
C19_Witness ==
    /\ sync.pc = "called"
    /\ frames[1] = <<WellFormed(<<>>, TxtContentA), WellFormed(<<>>, <<>>)>>
    /\ sync.events[1].offset = 31
    /\ sync.events[1].result.complete
    /\ sync.events[1].result.data = JsonNull
    /\ sync.events[1].result.nextOffset = 47

\* C20: wherever a decoder extracts a payload (payload length above 0), the
\* byte range it reads starts at frame start + 12 + headersLength, ends 4
\* bytes before the end of the frame and lies inside the frame and inside the
\* buffer, whatever the two length fields hold: for a call of
\* parseEventMessage and for the reader's scan.
C20_PayloadRange ==
    LET buffer == input[1]
        InRange(at, bytes) ==
            LET begin == at + 12 + GetUint32(buffer, at + 4)
                end == at + GetUint32(buffer, at) - 4
            IN /\ at + 12 <= begin
               /\ begin < end
               /\ end <= Len(buffer)
               /\ bytes = SubSeq(buffer, begin + 1, end)
    IN /\ sync.pc = "called" =>
             LET m == sync.events[1].result
             IN (m.complete /\ m.bytes # <<>>) =>
                    ~m.error /\ InRange(sync.events[1].offset, m.bytes)
       /\ sync.pc = "scanned" =>
             LET s == sync.events[1].result
             IN s.kind = "yield" => InRange(s.offset, s.bytes)

\* Witness of C20: the reader's scan, started at the empty frame at offset
\* 0, went past it and extracted the one-byte payload of the frame with two
\* header bytes behind it: byte 31 of the buffer.
C20_Witness ==
    /\ sync.pc = "scanned"
    /\ frames[1] = <<WellFormed(<<>>, <<>>), WellFormed(<<7, 7>>, TxtX)>>
    /\ Len(input[1]) = 35
    /\ sync.events[1].offset = 0
    /\ sync.events[1].result.kind = "yield"
    /\ sync.events[1].result.offset = 16
    /\ sync.events[1].result.bytes = SubSeq(input[1], 31, 31)

\* ---------------------------------------------------------------- SpecConc
\* Several streamKiroResponse generators, each over its own reader and byte
\* source, run concurrently: their steps interleave at every suspension.
Requests == {1, 2}

\* Each call of streamKiroResponse / parseEventStreamAsync declares its own
\* locals (contentBlockIndex, hasStarted, hasOpenBlock, buffer, ...): request r
\* works on the state of its own call.
StateOf_Shared(r) == 1

StateOf(r) == r

ConcInputs ==
    { <<WellFormed(<<>>, TxtToolUse), WellFormed(<<>>, TxtContentA)>>,
      <<WellFormed(<<>>, TxtContentA), WellFormed(<<>>, TxtNull)>>,
      <<WellFormed(<<7>>, TxtX)>> }

\* The sizes of the chunks a read delivers (the last chunk is what is left):
\* inside a prelude, exactly a 16-byte frame, and across frame boundaries.
ConcChunkSizes == {5, 16, 24}

ConcInit ==
    /\ frames \in [Requests -> ConcInputs]
    /\ input = [r \in Requests |-> EncodeFrames(frames[r])]
    /\ rd = [r \in Requests |-> ReaderInit]
    /\ yielded = [r \in Requests |-> <<>>]
    /\ sync = [pc |-> "idle", events |-> <<>>]
    /\ tr = [r \in Requests |-> StreamInit]
    /\ out = [r \in Requests |-> <<>>]
    /\ fed = 0
    /\ tx = <<>>
    /\ http = <<>>

\* The reader took a step (`next`): the orchestrator consumes what it did. A
\* yielded payload goes through one loop iteration; if that throws, for await
\* closes the reader (its finally releases the lock). A finished reader ends
\* the stream; a failed one makes the orchestrator rethrow.
Pipeline(reader, stream) ==
    CASE reader.pc = "yielded" ->
            LET res == StreamOnPayload(stream, reader.item.data)
            IN [reader |-> IF res.state.pc = "failed" THEN ReaderOnReturn(reader) ELSE reader,
                stream |-> res.state, events |-> res.events]
      [] reader.pc = "done" ->
            LET res == StreamOnEnd(stream)
            IN [reader |-> reader, stream |-> res.state, events |-> res.events]
      [] reader.pc = "failed" ->
            LET res == StreamOnError(stream)
            IN [reader |-> reader, stream |-> res.state, events |-> res.events]
      [] OTHER -> [reader |-> reader, stream |-> stream, events |-> <<>>]

ConcStep(r, next) ==
    LET res == Pipeline(next, tr[StateOf(r)])
    IN /\ rd' = [rd EXCEPT ![StateOf(r)] = res.reader]
       /\ tr' = [tr EXCEPT ![StateOf(r)] = res.stream]
       /\ yielded' = [yielded EXCEPT ![r] = Collect(r, next)]
       /\ out' = [out EXCEPT ![r] = out[r] \o res.events]
       /\ UNCHANGED <<frames, input, sync, fed, tx, http>>

\* Request r's read resolves with the next n bytes of its source.
ConcRead(r) ==
    /\ rd[StateOf(r)].pc = "read"
    /\ rd[StateOf(r)].pos < Len(input[r])
    /\ \E n \in ConcChunkSizes :
          ConcStep(r, ReaderOnChunk(rd[StateOf(r)],
                                    SubSeq(input[r], rd[StateOf(r)].pos + 1,
                                           Min(rd[StateOf(r)].pos + n, Len(input[r])))))

\* Request r's orchestrator asks its reader for the next payload.
ConcNext(r) ==
    /\ rd[StateOf(r)].pc = "yielded"
    /\ ConcStep(r, ReaderOnNext(rd[StateOf(r)]))

\* Request r's source is exhausted.
ConcEnd(r) ==
    /\ rd[StateOf(r)].pc = "read"
    /\ rd[StateOf(r)].pos = Len(input[r])
    /\ ConcStep(r, ReaderOnDone(rd[StateOf(r)]))

\* A read of request r's source fails.
ConcReadFails(r) ==
    /\ rd[StateOf(r)].pc = "read"
    /\ ConcStep(r, ReaderOnError(rd[StateOf(r)]))

ConcNextStep ==
    \E r \in Requests :
        \/ ConcRead(r)
        \/ ConcNext(r)
        \/ ConcEnd(r)
        \/ ConcReadFails(r)

SpecConc == ConcInit /\ [][ConcNextStep]_vars

\* ---------------------------------------------------------------- claims on SpecConc
\* The events one request emits when it runs alone on `bytes`, delivered
\* in one chunk, up to the end of the stream.
RECURSIVE AloneFrom(_, _, _, _)
AloneFrom(reader, stream, events, end) ==
    LET res == Pipeline(reader, stream)
    IN IF res.reader.pc = "yielded"
       THEN AloneFrom(ReaderOnNext(res.reader), res.stream, events \o res.events, end)
       ELSE IF res.reader.pc = "read" /\ ~end
       THEN AloneFrom(ReaderOnDone(res.reader), res.stream, events \o res.events, TRUE)
       ELSE events \o res.events

Alone(bytes) == AloneFrom(ReaderOnChunk(ReaderInit, bytes), StreamInit, <<>>, bytes = <<>>)

\* C10: under every interleaving of the requests' reads and emissions, what a
\* request has emitted so far is a prefix of what it emits alone on the same
\* bytes, and the whole of it once its stream has ended.
C10_Independent ==
    \A r \in Requests :
        /\ IsPrefix(out[r], Alone(input[r]))
        /\ tr[r].pc = "done" => out[r] = Alone(input[r])

\* Witness of C10: both requests are in mid-stream at once, each having emitted
\* events and each holding the bytes of an incomplete frame in its own buffer.
C10_Witness ==
    /\ \A r \in Requests :
          tr[r].pc = "running" /\ out[r] # <<>> /\ rd[r].pc = "read" /\ rd[r].buffer # <<>>
    /\ rd[1].buffer # rd[2].buffer

\* ---------------------------------------------------------------- SpecPipe
\* One request from the bytes of its source to the events it emits: a reader
\* over a source that delivers its bytes and ends, possibly in mid-frame,
\* consumed by one streamKiroResponse generator.
PipeFrames ==
    GoodFrames \cup {WellFormed(<<>>, TxtToolUse), WellFormed(<<>>, TxtNull)}

\* The bytes missing at the end of the source: none, the last byte(s), and
\* enough to leave fewer than 12 bytes of the last frame.
TailCuts == {0, MaxCut, 6, 13}

PipeInit ==
    /\ \E fs \in FrameLists(PipeFrames), cut \in TailCuts :
          /\ cut <= Len(EncodeFrames(fs))
          /\ frames = <<fs>>
          /\ input = <<Upstream(fs, cut)>>
    /\ rd = <<ReaderInit>>
    /\ yielded = << <<>> >>
    /\ sync = [pc |-> "idle", events |-> <<>>]
    /\ tr = <<StreamInit>>
    /\ out = << <<>> >>
    /\ fed = 0
    /\ tx = <<>>
    /\ http = <<>>

PipeNextStep ==
    \/ ConcRead(1)
    \/ ConcNext(1)
    \/ ConcEnd(1)

SpecPipe == PipeInit /\ [][PipeNextStep]_vars

\* C16: when the source ends while the reader's buffer holds an unconsumed
\* tail (fewer than 12 bytes, or the beginning of a frame that never
\* completes), no error is raised anywhere: the reader finishes normally,
\* having yielded the payloads of the complete frames and nothing for the
\* tail, and the orchestrator ends the stream with its terminal events.
C16_TailDropped ==
    (\A i \in DOMAIN frames[1] : frames[1][i].payload # TxtNull) =>
        LET whole == CompleteFrames(frames[1], Len(input[1]))
            n == Len(out[1])
        IN /\ rd[1].pc \in {"read", "yielded", "done"}
           /\ tr[1].pc \in {"running", "done"}
           /\ rd[1].pc = "done" =>
                 /\ BytesOf(yielded[1]) = Payloads(whole)
                 /\ rd[1].buffer = SubSeq(input[1], Len(EncodeFrames(whole)) + 1, Len(input[1]))
                 /\ tr[1].pc = "done"
                 /\ n >= 2
                 /\ out[1][n - 1].type = "message_delta" /\ out[1][n - 1].stop_reason = "end_turn"
                 /\ out[1][n] = MessageStop

\* Witness of C16: the source ended 6 to 11 bytes into a frame, after a whole
\* frame whose payload was translated; the stream was ended normally.
C16_Witness ==
    /\ rd[1].pc = "done"
    /\ Len(rd[1].buffer) \in 6..11
    /\ Len(yielded[1]) = 1
    /\ tr[1].pc = "done"
    /\ out[1][Len(out[1])] = MessageStop

\* Witness of C16 for the other kind of tail: a prelude whose declared
\* totalLength exceeds the bytes that arrived.
C16_WitnessTruncated ==
    /\ rd[1].pc = "done"
    /\ Len(rd[1].buffer) >= 12
    /\ GetUint32(rd[1].buffer, 0) > Len(rd[1].buffer)
    /\ tr[1].pc = "done"

\* C11: the reader gives up the lock it took on the byte source on every way
\* its consumption ends: the source is exhausted, a read fails, or the consumer
\* abandons it at a yield. No ended reader still holds the lock (and a reader
\* that has not ended still holds it, so the release happens at the end).
C11_LockReleased ==
    \A r \in Requests :
        rd[r].locked <=> rd[r].pc \notin {"done", "failed", "closed"}

\* Witness of C11: one request's reader was abandoned by its consumer (the
\* translation of a payload threw) and the other's read failed after it had
\* yielded payloads.
C11_Witness ==
    /\ rd[1].pc = "closed" /\ tr[1].error = ErrNullPayload
    /\ rd[2].pc = "failed" /\ yielded[2] # <<>>

\* ---------------------------------------------------------------- SpecPull
\* One streaming request at the granularity of single events: the handler's
\* for await loop (the consumer) asks the generator for one event at a time
\* and writes it; streamKiroResponse (reached through the yield* of
\* sendKiroMessageStream) runs only from one of these requests to its next
\* yield; it asks parseEventStreamAsync for the next payload, and that one
\* reads the byte source, only when it has nothing left to yield.
\*   sync = [pc, events]: where the orchestrator is suspended or running, and
\*       the events of anthropicEvents it has not yielded yet;
\*   http = [pc, asked, written]: the consumer: "ready" to call next(),
\*       "awaiting" the result, "got" an event to write, "finished" (the
\*       generator returned), "threw", "ended" (res.end() called);
\*   fed: the number of reader.read() calls issued.
PullInputs ==
    { <<WellFormed(<<>>, TxtToolInput), WellFormed(<<>>, TxtContentA)>>,
      <<WellFormed(<<7>>, TxtX), WellFormed(<<>>, TxtToolUse)>>,
      <<WellFormed(<<>>, TxtContentA), WellFormed(<<>>, TxtNull)>>,
      <<WellFormed(<<>>, <<>>)>>,
      <<>> }

PullChunkSizes == {16, 44}

PullInit ==
    /\ \E fs \in PullInputs : frames = <<fs>> /\ input = <<EncodeFrames(fs)>>
    /\ rd = <<ReaderInit>>
    /\ yielded = << <<>> >>
    /\ sync = [pc |-> "start", events |-> <<>>]
    /\ tr = <<StreamInit>>
    /\ out = << <<>> >>
    /\ fed = 0
    /\ tx = <<>>
    /\ http = [pc |-> "ready", asked |-> 0, written |-> 0]

\* The body of an async generator runs only while a next() call of its
\* consumer is outstanding.
Resumed_Always == TRUE

Resumed == http.pc = "awaiting"

\* yield evt: the event is handed to the consumer, whose next() resolves.
Yield(evt) ==
    /\ out' = [out EXCEPT ![1] = Append(out[1], evt)]
    /\ http' = [http EXCEPT !.pc = "got"]

\* The reads the reader has issued after a step that left it in `next`.
ReadsAfter(next) == IF next.pc = "read" THEN fed + 1 ELSE fed

\* for await (const event of streamGenerator): the consumer calls next().
PullAsk ==
    /\ http.pc = "ready"
    /\ http' = [http EXCEPT !.pc = "awaiting", !.asked = @ + 1]
    /\ UNCHANGED <<frames, input, rd, yielded, sync, tr, out, fed, tx>>

\* res.write(...) of the event received; the loop goes round.
PullWrite ==
    /\ http.pc = "got"
    /\ http' = [http EXCEPT !.pc = "ready", !.written = @ + 1]
    /\ UNCHANGED <<frames, input, rd, yielded, sync, tr, out, fed, tx>>

\* The generator returned: res.end(). It threw: the error event is written
\* and res.end() is called.
PullFinish ==
    /\ http.pc \in {"finished", "threw"}
    /\ http' = [http EXCEPT !.pc = "ended"]
    /\ UNCHANGED <<frames, input, rd, yielded, sync, tr, out, fed, tx>>

\* First next(): the generator starts, reaches for await and asks the reader
\* for its first payload; the reader issues its first read.
GenStart ==
    /\ Resumed
    /\ sync.pc = "start"
    /\ sync' = [sync EXCEPT !.pc = "loop"]
    /\ fed' = fed + 1
    /\ UNCHANGED <<frames, input, rd, yielded, tr, out, tx, http>>

\* The read the reader is waiting on delivers the next n bytes.
PullChunk ==
    /\ sync.pc = "loop"
    /\ rd[1].pc = "read"
    /\ rd[1].pos < Len(input[1])
    /\ \E n \in PullChunkSizes :
          LET next == ReaderOnChunk(rd[1], SubSeq(input[1], rd[1].pos + 1,
                                                  Min(rd[1].pos + n, Len(input[1]))))
          IN /\ rd' = [rd EXCEPT ![1] = next]
             /\ fed' = ReadsAfter(next)
    /\ UNCHANGED <<frames, input, yielded, sync, tr, out, tx, http>>

\* The read the reader is waiting on reports the end of the source.
PullDone ==
    /\ sync.pc = "loop"
    /\ rd[1].pc = "read"
    /\ rd[1].pos = Len(input[1])
    /\ rd' = [rd EXCEPT ![1] = ReaderOnDone(rd[1])]
    /\ UNCHANGED <<frames, input, yielded, sync, tr, out, fed, tx, http>>

\* The read the reader is waiting on fails.
PullReadFails ==
    /\ sync.pc = "loop"
    /\ rd[1].pc = "read"
    /\ rd' = [rd EXCEPT ![1] = ReaderOnError(rd[1])]
    /\ UNCHANGED <<frames, input, yielded, sync, tr, out, fed, tx, http>>

\* The reader yielded a payload (line 136). The first one makes the generator
\* yield message_start (lines 138-152); a later one goes to the translator.
GenPayload ==
    /\ Resumed
    /\ sync.pc = "loop"
    /\ rd[1].pc = "yielded"
    /\ yielded' = [yielded EXCEPT ![1] = Append(yielded[1], rd[1].item)]
    /\ IF ~tr[1].hasStarted
       THEN /\ tr' = [tr EXCEPT ![1].hasStarted = TRUE]
            /\ sync' = [sync EXCEPT !.pc = "started"]
            /\ Yield(FirstEvents(tr[1])[1])
       ELSE /\ sync' = [sync EXCEPT !.pc = "convert"]
            /\ UNCHANGED <<tr, out, http>>
    /\ UNCHANGED <<frames, input, rd, fed, tx>>

\* Resumed after message_start: yield content_block_start (lines 155-159).
GenBlockStart ==
    /\ Resumed
    /\ sync.pc = "started"
    /\ sync' = [sync EXCEPT !.pc = "opened"]
    /\ Yield(FirstEvents(tr[1])[2])
    /\ UNCHANGED <<frames, input, rd, yielded, tr, fed, tx>>

\* Resumed after content_block_start: hasOpenBlock = true (line 160).
GenOpened ==
    /\ Resumed
    /\ sync.pc = "opened"
    /\ tr' = [tr EXCEPT ![1].hasOpenBlock = TRUE]
    /\ sync' = [sync EXCEPT !.pc = "convert"]
    /\ UNCHANGED <<frames, input, rd, yielded, out, fed, tx, http>>

\* The payload is translated (line 164). A TypeError leaves for await, which
\* closes the reader, and is rethrown to the consumer (lines 209-212).
GenConvert ==
    /\ Resumed
    /\ sync.pc = "convert"
    /\ LET event == yielded[1][Len(yielded[1])].data
           conv == convertKiroEventToAnthropic(event, tr[1].contentBlockIndex, tr[1].hasOpenBlock)
       IN IF conv.throws
          THEN /\ sync' = [pc |-> "failed", events |-> <<>>]
               /\ tr' = [tr EXCEPT ![1].pc = "failed", ![1].error = ErrNullPayload]
               /\ rd' = [rd EXCEPT ![1] = ReaderOnReturn(rd[1])]
               /\ http' = [http EXCEPT !.pc = "threw"]
          ELSE /\ sync' = [pc |-> "events", events |-> conv.events]
               /\ UNCHANGED <<tr, rd, http>>
    /\ UNCHANGED <<frames, input, yielded, out, fed, tx>>

\* for (const evt of anthropicEvents): track and yield the next event (lines
\* 166-184); with none left the outer loop asks the reader for the next
\* payload, and the reader goes on from where it yielded.
GenEvents ==
    /\ Resumed
    /\ sync.pc = "events"
    /\ IF sync.events # <<>>
       THEN /\ tr' = [tr EXCEPT ![1] = Track(tr[1], <<Head(sync.events)>>)]
            /\ sync' = [sync EXCEPT !.events = Tail(sync.events)]
            /\ Yield(Head(sync.events))
            /\ UNCHANGED <<rd, fed>>
       ELSE LET next == ReaderOnNext(rd[1])
            IN /\ sync' = [sync EXCEPT !.pc = "loop"]
               /\ rd' = [rd EXCEPT ![1] = next]
               /\ fed' = ReadsAfter(next)
               /\ UNCHANGED <<tr, out, http>>
    /\ UNCHANGED <<frames, input, yielded, tx>>

\* The reader is exhausted: the first terminal event is yielded (lines
\* 187-205), the stop of the open block if there is one.
GenExhausted ==
    /\ Resumed
    /\ sync.pc = "loop"
    /\ rd[1].pc = "done"
    /\ sync' = [pc |-> "ending", events |-> Tail(StreamOnEnd(tr[1]).events)]
    /\ Yield(Head(StreamOnEnd(tr[1]).events))
    /\ UNCHANGED <<frames, input, rd, yielded, tr, fed, tx>>

\* Resumed after a terminal event: the next one is yielded; after
\* message_stop the generator returns.
GenEnding ==
    /\ Resumed
    /\ sync.pc = "ending"
    /\ IF sync.events # <<>>
       THEN /\ sync' = [sync EXCEPT !.events = Tail(sync.events)]
            /\ Yield(Head(sync.events))
            /\ UNCHANGED tr
       ELSE /\ sync' = [sync EXCEPT !.pc = "done"]
            /\ tr' = [tr EXCEPT ![1].pc = "done"]
            /\ http' = [http EXCEPT !.pc = "finished"]
            /\ UNCHANGED out
    /\ UNCHANGED <<frames, input, rd, yielded, fed, tx>>

\* The reader threw: the generator rethrows (lines 209-212).
GenRethrow ==
    /\ Resumed
    /\ sync.pc = "loop"
    /\ rd[1].pc = "failed"
    /\ sync' = [pc |-> "failed", events |-> <<>>]
    /\ tr' = [tr EXCEPT ![1] = StreamOnError(tr[1]).state]
    /\ http' = [http EXCEPT !.pc = "threw"]
    /\ UNCHANGED <<frames, input, rd, yielded, out, fed, tx>>

PullNextStep ==
    \/ PullAsk
    \/ PullWrite
    \/ PullFinish
    \/ GenStart
    \/ PullChunk
    \/ PullDone
    \/ PullReadFails
    \/ GenPayload
    \/ GenBlockStart
    \/ GenOpened
    \/ GenConvert
    \/ GenEvents
    \/ GenExhausted
    \/ GenEnding
    \/ GenRethrow

SpecPull == PullInit /\ [][PullNextStep]_vars

\* ---------------------------------------------------------------- claims on SpecPull
IsSuffix(s, t) == Len(s) <= Len(t) /\ s = SubSeq(t, Len(t) - Len(s) + 1, Len(t))

\* The translated events not yet handed to the consumer.
Pending == IF sync.pc = "events" THEN sync.events ELSE <<>>

\* At every moment the pending translated events are at most 4 and are the
\* rest of the events of one payload, the last one received; every event
\* handed over was asked for; and while the consumer is not waiting for an
\* event, every event handed over is one it has received.
C29_PendingBounded ==
    /\ Len(Pending) <= 4
    /\ Pending # <<>> =>
          LET event == yielded[1][Len(yielded[1])].data
          IN IsSuffix(Pending, convertKiroEventToAnthropic(event, tr[1].contentBlockIndex,
                                                           TRUE).events)
                 \/ IsSuffix(Pending, convertKiroEventToAnthropic(event, tr[1].contentBlockIndex,
                                                                  FALSE).events)
    /\ Len(out[1]) <= http.asked
    /\ http.pc \in {"ready", "got"} =>
          Len(out[1]) = http.written + (IF http.pc = "got" THEN 1 ELSE 0)

\* A step that issues a read, takes bytes from the source, receives a payload
\* or translates one is taken while the consumer is waiting for its next
\* event and no translated event is pending.
C29_OnDemand ==
    ( \/ fed' # fed
      \/ rd'[1].pos # rd[1].pos
      \/ yielded'[1] # yielded[1]
      \/ (sync'.pc = "events" /\ sync.pc # "events") )
    => (http.pc = "awaiting" /\ Pending = <<>>)

\* C29: the orchestrator never runs ahead of its consumer: it asks for the
\* next chunk or translates the next payload only when the consumer has
\* asked for the next event, and at every moment the translated events not
\* yet handed over come from one decoded payload and number at most 4.
C29_NoRunAhead == [](C29_PendingBounded) /\ [][C29_OnDemand]_vars

\* Witness of C29: the consumer is writing the first event of a tool block
\* while the three other events of that payload are pending and the rest of
\* the source has not been read.
C29_Witness ==
    /\ http.pc = "got"
    /\ Len(Pending) = 3
    /\ Pending[3] = BlockStop(1)
    /\ out[1][Len(out[1])] = BlockStop(0)
    /\ rd[1].pos < Len(input[1])

\* ---------------------------------------------------------------- SpecRetry
\* One call of sendKiroMessage (mode "message") or of sendKiroMessageStream
\* (mode "stream"): the retry loop around fetch and the consumption of the
\* response body. The two loops are the same statement for statement; they
\* differ in what consumes the body: response.arrayBuffer() and
\* parseEventStream in the first, yield* streamKiroResponse in the second.
\* tx is the call's locals (pc "streaming" = consuming the body of an OK
\* response) with the outcomes of its attempts so far (history) and whether
\* the call has yielded an event to its caller (emitted, history).
RetryModes == {"message", "stream"}

RetryInit ==
    /\ frames = <<>>
    /\ input = <<>>
    /\ rd = <<>>
    /\ yielded = <<>>
    /\ sync = [pc |-> "idle", events |-> <<>>]
    /\ tr = <<>>
    /\ out = <<>>
    /\ fed = 0
    /\ \E mode \in RetryModes :
          tx = TxInit @@ [mode |-> mode, outcomes |-> <<>>, emitted |-> FALSE]
    /\ http = <<>>

\* getKiroAuthData resolved (with or without a token) or rejected.
RetryAuth ==
    /\ tx.pc = "auth"
    /\ \E outcome \in {"ok", "noToken", "throws"} :
          tx' = CASE outcome = "ok" -> [tx EXCEPT !.pc = "fetch"]
                  [] outcome = "noToken" -> TxThrow(tx, ErrNoToken)
                  [] OTHER -> TxThrow(tx, ErrRead)
    /\ UNCHANGED <<frames, input, rd, yielded, sync, tr, out, fed, http>>

\* fetch of the current attempt settled, and the waits that follow it ended.
RetryFetch ==
    /\ tx.pc = "fetch"
    /\ \E outcome \in FetchOutcomes :
          tx' = [TxOnFetch(tx, outcome) EXCEPT !.outcomes = Append(@, outcome)]
    /\ UNCHANGED <<frames, input, rd, yielded, sync, tr, out, fed, http>>

\* streamKiroResponse yields an event, which yield* hands to the caller of
\* sendKiroMessageStream; sendKiroMessage hands nothing over before it returns.
RetryBodyYields ==
    /\ tx.pc = "streaming"
    /\ tx.mode = "stream"
    /\ ~tx.emitted
    /\ tx' = [tx EXCEPT !.emitted = TRUE]
    /\ UNCHANGED <<frames, input, rd, yielded, sync, tr, out, fed, http>>

\* The body was consumed to its end: the call returns its result.
RetryBodyDone ==
    /\ tx.pc = "streaming"
    /\ tx' = [tx EXCEPT !.pc = "returned"]
    /\ UNCHANGED <<frames, input, rd, yielded, sync, tr, out, fed, http>>

\* Reading the body failed: the error is caught by the retry loop.
RetryBodyFails ==
    /\ tx.pc = "streaming"
    /\ tx' = [TxCatch(tx, ErrRead) EXCEPT !.outcomes[Len(tx.outcomes)] = "body"]
    /\ UNCHANGED <<frames, input, rd, yielded, sync, tr, out, fed, http>>

\* The body holds a frame that declares totalLength = 0: the decoder's scan
\* never advances, parseEventStream never returns and the reader never
\* yields again.
RetryBodySpins ==
    /\ tx.pc = "streaming"
    /\ tx' = [tx EXCEPT !.pc = "hung"]
    /\ UNCHANGED <<frames, input, rd, yielded, sync, tr, out, fed, http>>

RetryNextStep ==
    \/ RetryAuth
    \/ RetryFetch
    \/ RetryBodyYields
    \/ RetryBodyDone
    \/ RetryBodyFails
    \/ RetryBodySpins

SpecRetry == RetryInit /\ [][RetryNextStep]_vars

\* Every await of the call settles: a step that can be taken is taken.
SpecRetryLive == SpecRetry /\ WF_vars(RetryNextStep)

\* ---------------------------------------------------------------- claims on SpecRetry
RetryEnded == tx.pc \in {"returned", "threw"}

\* The safety half of C30: at most MAX_RETRIES upstream requests are issued,
\* whatever their outcomes; when MAX_RETRIES attempts all ended in 429 or 5xx
\* the call has thrown 'Max retries exceeded', and fewer such attempts have
\* not ended it.
C30_BoundedAttempts ==
    /\ tx.fetches <= MAX_RETRIES
    /\ tx.fetches = Len(tx.outcomes)
    /\ (\A i \in DOMAIN tx.outcomes : tx.outcomes[i] \in {"429", "5xx"}) =>
          IF Len(tx.outcomes) = MAX_RETRIES
          THEN tx.pc = "threw" /\ tx.error = ErrMaxRetries
          ELSE tx.pc \in {"auth", "fetch"} \/ (tx.pc = "threw" /\ tx.fetches = 0)

\* C30: for every sequence of upstream outcomes one call issues at most
\* MAX_RETRIES upstream requests and then ends, with a result or with a
\* thrown error; when all attempts end in 429 or 5xx the error is 'Max
\* retries exceeded'.
C30_RetryTerminates == [](C30_BoundedAttempts) /\ <>(RetryEnded)

\* What holds of the second half: the call ends unless the decoder entered
\* the scan that never advances.
C30_EndsUnlessSpin == <>(RetryEnded \/ tx.pc = "hung")

\* The state C30 fails in: the first response was OK and its body made the
\* decoder spin; the call neither returns nor throws.
C30_Spinning ==
    /\ tx.pc = "hung"
    /\ tx.outcomes = <<"ok">>

\* A state of the safety half: three attempts ended in 5xx, 429, 5xx and the
\* call threw 'Max retries exceeded'.
C30_Exhausted ==
    /\ tx.outcomes = <<"5xx", "429", "5xx">>
    /\ tx.pc = "threw"
    /\ tx.error = ErrMaxRetries
    /\ tx.fetches = MAX_RETRIES

\* The attempts made so far whose outcome was o.
AttemptsWith(o) == { i \in DOMAIN tx.outcomes : tx.outcomes[i] = o }

\* C31: an authentication failure is never retried: after a 401 on any
\* attempt no further upstream request is issued (the 401 is the last
\* attempt) and the call has thrown the authentication error, without having
\* emitted any event.
C31_AuthNotRetried ==
    \A i \in AttemptsWith("401") :
        /\ i = Len(tx.outcomes)
        /\ tx.pc = "threw"
        /\ tx.error = ErrAuthExpired
        /\ ~tx.emitted

\* What holds of C31: the 401 is the last attempt and the authentication
\* error is thrown; and no event was emitted when no earlier attempt had
\* handed its body over.
C31_AuthEndsCall ==
    \A i \in AttemptsWith("401") :
        /\ i = Len(tx.outcomes)
        /\ tx.pc = "threw"
        /\ tx.error = ErrAuthExpired
        /\ AttemptsWith("body") = {} => ~tx.emitted

\* The state C31 fails in: the first response was OK and events were emitted,
\* reading its body failed, the retry was answered 401.
C31_AuthAfterEvents ==
    /\ tx.mode = "stream"
    /\ tx.outcomes = <<"body", "401">>
    /\ tx.pc = "threw" /\ tx.error = ErrAuthExpired
    /\ tx.emitted

\* C32: only 429, 5xx and network failures cause another attempt: a non-OK
\* response with any other status ends the call with 'Kiro API error
\* <status>' and no further upstream request.
C32_OtherStatusNotRetried ==
    \A i \in AttemptsWith("other") :
        /\ i = Len(tx.outcomes)
        /\ tx.pc = "threw"
        /\ tx.error = ErrApi

\* What holds instead: such a response ends the call only on the last
\* attempt; on an earlier one the next request is issued.
C32_OtherStatusRetried ==
    \A i \in AttemptsWith("other") :
        IF i = MAX_RETRIES
        THEN tx.pc = "threw" /\ tx.error = ErrApi
        ELSE tx.fetches > i \/ tx.pc = "fetch"

\* The state C32 fails in: a 400 on the first attempt, and the second
\* request about to be issued.
C32_RetryAfter400 ==
    /\ tx.outcomes = <<"other">>
    /\ tx.pc = "fetch"
    /\ tx.attempt = 1

\* ---------------------------------------------------------------- non-streaming response
\* fullContent += event.content: the string a value contributes.
ContentText(v) ==
    CASE v.t = "string" -> v.s
      [] v.t = "number" -> ToString(v.n)
      [] OTHER -> v.s

\* One entry of toolUses (lines 182-188): event.toolUse || event.toolUseEvent.
ExtractedTool(event) ==
    LET toolUse == IF event.toolUse.present THEN event.toolUse ELSE event.toolUseEvent
    IN [id |-> toolUse.toolUseId, name |-> toolUse.name, input |-> toolUse.input]

\* extractContentFromEvents(events): the text, the usage and the tool uses
\* collected over the decoded payloads, in order.
RECURSIVE extractContentFromEvents(_)
extractContentFromEvents(events) ==
    IF events = <<>>
    THEN [content |-> "", output_tokens |-> 0, toolUses |-> <<>>]
    ELSE LET before == extractContentFromEvents(SubSeq(events, 1, Len(events) - 1))
             event == events[Len(events)]
         IN [content |-> IF event.content.t # "undefined"
                         THEN before.content \o ContentText(event.content)
                         ELSE before.content,
             output_tokens |-> IF event.unit = Str("credit") \/ event.usage.t # "undefined"
                               THEN (IF Truthy(event.usage) THEN event.usage.n ELSE 0) * 1000
                               ELSE before.output_tokens,
             toolUses |-> IF event.toolUse.present \/ event.toolUseEvent.present
                          THEN Append(before.toolUses, ExtractedTool(event))
                          ELSE before.toolUses]

TextBlock(text) ==
    [type |-> "text", text |-> text, id |-> Undef, name |-> Undef, input |-> Undef]
ToolUseBlock(tool) ==
    [type |-> "tool_use", text |-> "", id |-> OrElse(tool.id, GeneratedToolId),
     name |-> tool.name, input |-> OrElse(tool.input, ObjText("{}"))]

\* contentBlocks as built at lines 105-124 of sendKiroMessage.
ContentBlocks(extracted) ==
    (IF extracted.content # "" THEN <<TextBlock(extracted.content)>> ELSE <<>>)
        \o [i \in DOMAIN extracted.toolUses |-> ToolUseBlock(extracted.toolUses[i])]

\* content: contentBlocks.length > 0 ? contentBlocks : [{type: 'text', text: ''}]
MessageContent_NoDefault(contentBlocks) == contentBlocks

MessageContent(contentBlocks) ==
    IF Len(contentBlocks) > 0 THEN contentBlocks ELSE <<TextBlock("")>>

\* The message sendKiroMessage returns for the decoded payloads (lines 102-135).
BuildMessage(events) ==
    LET extracted == extractContentFromEvents(events)
    IN [model |-> RequestModel,
        content |-> MessageContent(ContentBlocks(extracted)),
        stop_reason |-> IF Len(extracted.toolUses) > 0 THEN "tool_use" ELSE "end_turn",
        output_tokens |-> extracted.output_tokens]

\* ---------------------------------------------------------------- SpecPaths
\* The same decoded payloads through both paths: streamKiroResponse consumes
\* them one at a time (tr, out), and when the source ends sendKiroMessage's
\* response is built from the same sequence (http). parseEventStream has
\* dropped the payloads that are the JSON null before sendKiroMessage sees
\* the sequence, so none is fed here.
PathPayloads ==
    (PayloadChoices \ {JsonNull})
        \cup { [EmptyObject EXCEPT !.content = Str("a"),
                                   !.toolUse = Tool(Str("t1"), Str("search"), Undef)],
               [EmptyObject EXCEPT !.content = Num(5)] }

PathsInit ==
    /\ frames = <<>>
    /\ input = <<>>
    /\ rd = <<>>
    /\ yielded = << <<>> >>
    /\ sync = [pc |-> "idle", events |-> <<>>]
    /\ tr = <<StreamInit>>
    /\ out = << <<>> >>
    /\ fed = 0
    /\ tx = <<>>
    /\ http = [pc |-> "pending", message |-> BuildMessage(<<>>)]

\* The next decoded payload.
PathsFeed ==
    /\ tr[1].pc = "running"
    /\ fed < MaxPayloads
    /\ \E event \in PathPayloads :
          LET res == StreamOnPayload(tr[1], event)
          IN /\ tr' = [tr EXCEPT ![1] = res.state]
             /\ out' = [out EXCEPT ![1] = out[1] \o res.events]
             /\ yielded' = [yielded EXCEPT ![1] = Append(yielded[1], [bytes |-> <<>>, data |-> event])]
    /\ fed' = fed + 1
    /\ UNCHANGED <<frames, input, rd, sync, tx, http>>

\* The source ends: the stream is closed and the message is returned.
PathsEnd ==
    /\ tr[1].pc = "running"
    /\ LET res == StreamOnEnd(tr[1])
       IN /\ tr' = [tr EXCEPT ![1] = res.state]
          /\ out' = [out EXCEPT ![1] = out[1] \o res.events]
    /\ http' = [pc |-> "returned",
                message |-> BuildMessage([i \in DOMAIN yielded[1] |-> yielded[1][i].data])]
    /\ UNCHANGED <<frames, input, rd, yielded, sync, fed, tx>>

PathsNextStep == PathsFeed \/ PathsEnd

SpecPaths == PathsInit /\ [][PathsNextStep]_vars

\* ---------------------------------------------------------------- claims on SpecPaths
\* The payloads fed that carry a tool invocation, in order.
RECURSIVE ToolPayloads(_)
ToolPayloads(payloads) ==
    IF payloads = <<>> THEN <<>>
    ELSE LET rest == ToolPayloads(Tail(payloads))
             event == Head(payloads).data
         IN IF event.toolUse.present \/ event.toolUseEvent.present
            THEN <<event>> \o rest ELSE rest

C33_WitnessEmpty ==
    /\ http.pc = "returned"
    /\ Len(yielded[1]) = 1
    /\ http.message.content = <<TextBlock("")>>
    /\ http.message.stop_reason = "end_turn"

\* The concatenation of the texts of the text_delta events of a stream.
RECURSIVE StreamedText(_)
StreamedText(events) ==
    IF events = <<>> THEN ""
    ELSE LET evt == events[Len(events)]
             before == StreamedText(SubSeq(events, 1, Len(events) - 1))
         IN IF evt.type = "content_block_delta" /\ evt.kind = "text_delta"
            THEN before \o evt.text.s ELSE before

\* The tool_use blocks of a stream, in order: id and name of the block start,
\* and as input the partial_json of its delta, {} if it has none.
RECURSIVE StreamedTools(_)
StreamedTools(events) ==
    IF events = <<>> THEN <<>>
    ELSE LET evt == Head(events)
             rest == StreamedTools(Tail(events))
             delta == IF Len(events) >= 2 /\ events[2].type = "content_block_delta"
                         /\ events[2].kind = "input_json_delta"
                      THEN events[2].text ELSE Str("{}")
         IN IF evt.type = "content_block_start" /\ evt.kind = "tool_use"
            THEN <<[id |-> evt.id, name |-> evt.name, input |-> delta]>> \o rest
            ELSE rest

\* The text and the tool_use blocks of the returned message, in the same form.
MessageText(message) ==
    IF message.content[1].type = "text" THEN message.content[1].text ELSE ""
MessageTools(message) ==
    LET tools == SelectSeq(message.content, LAMBDA b : b.type = "tool_use")
    IN [i \in DOMAIN tools |->
          [id |-> tools[i].id, name |-> tools[i].name, input |-> JSONstringify(tools[i].input)]]

\* C34: for the same decoded payloads both paths deliver the same content:
\* the text_delta texts of the stream, concatenated, are the text of the
\* returned message, and the stream's tool_use blocks (name, id, input) are
\* those of the message, in the same order.
C34_SameContent ==
    (http.pc = "returned" /\ tr[1].pc = "done") =>
        /\ StreamedText(out[1]) = MessageText(http.message)
        /\ StreamedTools(out[1]) = MessageTools(http.message)

\* What holds of C34: the two paths agree when every payload is either a
\* plain string content or, without content, one tool invocation or a shape
\* that yields nothing in both.
PlainPayload(event) ==
    /\ event.content.t \in {"string", "undefined"}
    /\ event.content.t = "string" => ~(event.toolUse.present \/ event.toolUseEvent.present)
    /\ ~event.assistantResponseEvent.present
    /\ ~event.codeEvent.present

C34_SameContentPlain ==
    (http.pc = "returned" /\ tr[1].pc = "done"
        /\ \A i \in DOMAIN yielded[1] : PlainPayload(yielded[1][i].data)) =>
        /\ StreamedText(out[1]) = MessageText(http.message)
        /\ StreamedTools(out[1]) = MessageTools(http.message)

\* The state C34 fails in: one payload with the text in an assistant-response
\* wrapper; the stream delivered "b", the message holds the empty text.
C34_WrapperTextLost ==
    /\ http.pc = "returned"
    /\ Len(yielded[1]) = 1
    /\ yielded[1][1].data.assistantResponseEvent = Wrap(Str("b"))
    /\ StreamedText(out[1]) = "b"
    /\ http.message.content = <<TextBlock("")>>

\* ---------------------------------------------------------------- token cache
\* The module-level cache of the token extractor (lines 281-285) and the
\* credential store it reads. A time is [known, at]: known = FALSE is null;
\* at is in milliseconds. The token "null" is null.
TOKEN_REFRESH_INTERVAL_MS == 5 * 60 * 1000

NullTime == [known |-> FALSE, at |-> 0]
Time(ms) == [known |-> TRUE, at |-> ms]

CacheInit ==
    [cachedToken |-> "null", cachedRefreshToken |-> "null",
     tokenExtractedAt |-> NullTime, tokenExpiresAt |-> NullTime]

\* needsRefresh() at time now (lines 413-429).
needsRefresh_NoExpiry(cache, now) ==
    IF cache.cachedToken = "null" \/ ~cache.tokenExtractedAt.known THEN TRUE
    ELSE now - cache.tokenExtractedAt.at > TOKEN_REFRESH_INTERVAL_MS

needsRefresh(cache, now) ==
    LET bufferMs == 5 * 60 * 1000
    IN IF cache.cachedToken = "null" \/ ~cache.tokenExtractedAt.known THEN TRUE
       ELSE IF cache.tokenExpiresAt.known /\ now >= cache.tokenExpiresAt.at - bufferMs THEN TRUE
       ELSE now - cache.tokenExtractedAt.at > TOKEN_REFRESH_INTERVAL_MS

\* The four assignments after a successful getKiroAuthStatus() (lines
\* 438-441 and 455-458).
StoreInCache_TokenOnly(cache, data, now) == [cache EXCEPT !.cachedToken = data.accessToken]

StoreInCache(cache, data, now) ==
    [cachedToken |-> data.accessToken, cachedRefreshToken |-> data.refreshToken,
     tokenExtractedAt |-> Time(now), tokenExpiresAt |-> data.expiresAt]

\* ---------------------------------------------------------------- SpecToken
\* Calls of getKiroToken, getKiroAuthData and clearKiroTokenCache, one after
\* the other (none of them suspends between its reads and writes of the
\* cache), while the clock advances and the credential store changes.
\*   tx: the cache; http: what the store holds; fed: the clock (ms);
\*   sync: the last call: its name (pc) and a record of the cache before and
\*   after it, the time, what the store held, whether the call read the
\*   store, whether the read succeeded, and what it returned.
StoreContents ==
    { [accessToken |-> t, refreshToken |-> "r" \o t, expiresAt |-> e] :
        t \in {"t1", "t2"}, e \in {NullTime, Time(450000), Time(750000)} }

ClockSteps == {150000, 300000}

TokenInit ==
    /\ frames = <<>>
    /\ input = <<>>
    /\ rd = <<>>
    /\ yielded = <<>>
    /\ sync = [pc |-> "idle", events |-> <<>>]
    /\ tr = <<>>
    /\ out = <<>>
    /\ fed = 150000
    /\ tx = CacheInit
    /\ http \in StoreContents

Called(name, read, ok, result) ==
    sync' = [pc |-> name,
             events |-> <<[before |-> tx, after |-> tx', now |-> fed, store |-> http,
                           read |-> read, ok |-> ok, result |-> result]>>]

\* Time passes.
TokenTick ==
    /\ \E d \in ClockSteps :
          /\ fed + d <= MaxTicks * 150000
          /\ fed' = fed + d
    /\ UNCHANGED <<frames, input, rd, yielded, sync, tr, out, tx, http>>

\* The Kiro CLI writes another token into the store.
TokenStoreChanges ==
    /\ \E data \in StoreContents \ {http} : http' = data
    /\ UNCHANGED <<frames, input, rd, yielded, sync, tr, out, fed, tx>>

\* getKiroToken() (lines 435-447); ok: getKiroAuthStatus() does not throw.
TokenGetKiroToken ==
    /\ IF needsRefresh(tx, fed)
       THEN \E ok \in BOOLEAN :
               IF ok
               THEN /\ tx' = StoreInCache(tx, http, fed)
                    /\ Called("getKiroToken", TRUE, TRUE, http.accessToken)
               ELSE /\ tx' = tx
                    /\ Called("getKiroToken", TRUE, FALSE, "threw")
       ELSE /\ tx' = tx
            /\ Called("getKiroToken", FALSE, TRUE, tx.cachedToken)
    /\ UNCHANGED <<frames, input, rd, yielded, tr, out, fed, http>>

\* getKiroAuthData() (lines 453-461).
TokenGetKiroAuthData ==
    /\ \E ok \in BOOLEAN :
          IF ok
          THEN /\ tx' = StoreInCache(tx, http, fed)
               /\ Called("getKiroAuthData", TRUE, TRUE, http.accessToken)
          ELSE /\ tx' = tx
               /\ Called("getKiroAuthData", TRUE, FALSE, "threw")
    /\ UNCHANGED <<frames, input, rd, yielded, tr, out, fed, http>>

\* clearKiroTokenCache() (lines 508-513).
TokenClear ==
    /\ tx' = CacheInit
    /\ Called("clearKiroTokenCache", FALSE, TRUE, "undefined")
    /\ UNCHANGED <<frames, input, rd, yielded, tr, out, fed, http>>

TokenNextStep ==
    \/ TokenTick
    \/ TokenStoreChanges
    \/ TokenGetKiroToken
    \/ TokenGetKiroAuthData
    \/ TokenClear

SpecToken == TokenInit /\ [][TokenNextStep]_vars

\* ---------------------------------------------------------------- claims on SpecToken
LastCall == sync.events[1]

\* C35: getKiroToken returns the cached token without reading the store
\* exactly when a token is cached, it was extracted no more than
\* TOKEN_REFRESH_INTERVAL_MS ago and, if its expiry is known, the time is
\* earlier than the expiry minus 5 minutes; otherwise it reads the store and
\* what it returns is the token just read; a cached token it returns is not
\* past its known expiry.
C35_CachedOnlyWhenFresh ==
    sync.pc = "getKiroToken" =>
        LET before == LastCall.before
            now == LastCall.now
            fresh == /\ before.cachedToken # "null"
                     /\ before.tokenExtractedAt.known
                     /\ now - before.tokenExtractedAt.at <= TOKEN_REFRESH_INTERVAL_MS
                     /\ before.tokenExpiresAt.known => now < before.tokenExpiresAt.at - 300000
        IN /\ LastCall.read <=> ~fresh
           /\ (LastCall.read /\ LastCall.ok) =>
                 /\ LastCall.result = LastCall.store.accessToken
                 /\ LastCall.after.cachedToken = LastCall.store.accessToken
           /\ ~LastCall.read =>
                 /\ LastCall.result = before.cachedToken
                 /\ LastCall.after = before
                 /\ before.tokenExpiresAt.known => now < before.tokenExpiresAt.at

\* Witness of C35: a token with a known expiry, extracted less than 5 minutes
\* before, was not served from the cache because the time had reached the
\* expiry minus 5 minutes; the store, changed meanwhile, was read.
C35_Witness ==
    /\ sync.pc = "getKiroToken"
    /\ LastCall.read /\ LastCall.ok
    /\ LastCall.before.cachedToken = "t1"
    /\ LastCall.before.tokenExpiresAt = Time(750000)
    /\ LastCall.now = 450000
    /\ LastCall.now - LastCall.before.tokenExtractedAt.at = 150000
    /\ LastCall.result = "t2"

\* A second state of C35: the cached token was served exactly
\* TOKEN_REFRESH_INTERVAL_MS after its extraction.
C35_WitnessCached ==
    /\ sync.pc = "getKiroToken"
    /\ ~LastCall.read
    /\ LastCall.now - LastCall.before.tokenExtractedAt.at = 300000
    /\ LastCall.result = "t1"
    /\ LastCall.store.accessToken = "t2"

\* C36: whatever calls were made, cachedToken is null exactly when
\* tokenExtractedAt is null, and a call whose read of the store failed left
\* the four cache fields as they were.
C36_CacheConsistent ==
    /\ (tx.cachedToken = "null") <=> ~tx.tokenExtractedAt.known
    /\ (sync.pc # "idle" /\ LastCall.read /\ ~LastCall.ok) =>
          /\ LastCall.after = LastCall.before
          /\ tx = LastCall.after

\* Witness of C36: getKiroToken found its cached token stale, the read of the
\* store failed, and the cache still holds the stale token with its times.
C36_Witness ==
    /\ sync.pc = "getKiroToken"
    /\ LastCall.read /\ ~LastCall.ok
    /\ LastCall.before.cachedToken = "t1"
    /\ LastCall.before.tokenExpiresAt.known
    /\ tx = LastCall.before

\* A second state of C36: clearKiroTokenCache emptied a filled cache.
C36_WitnessCleared ==
    /\ sync.pc = "clearKiroTokenCache"
    /\ LastCall.before.cachedToken # "null"
    /\ tx = CacheInit

\* ---------------------------------------------------------------- request builder
\* An Anthropic request is [system, messages]; system "" is an absent system
\* prompt. A message is [role, content]; a content is a string
\* ([kind |-> "string", text]), an array of blocks ([kind |-> "blocks",
\* blocks]) or anything else ([kind |-> "other"]).
StringContent(text) == [kind |-> "string", text |-> text, blocks |-> <<>>]
BlocksContent(blocks) == [kind |-> "blocks", text |-> "", blocks |-> blocks]
OtherContent == [kind |-> "other", text |-> "", blocks |-> <<>>]

TextBlockOf(text) == [type |-> "text", text |-> text]
ImageBlock == [type |-> "image", text |-> ""]
DocumentBlock == [type |-> "document", text |-> ""]

\* The textParts of a content array (lines 75-92): text blocks give their
\* text, image blocks a placeholder, unknown block types nothing.
RECURSIVE TextParts(_)
TextParts(blocks) ==
    IF blocks = <<>> THEN <<>>
    ELSE LET block == Head(blocks)
             part == IF block.type = "text" THEN <<block.text>>
                     ELSE IF block.type = "image" THEN <<"[Image attached]">>
                     ELSE <<>>
         IN part \o TextParts(Tail(blocks))

\* textParts.join('\n') (line 93).
RECURSIVE JoinLines(_)
JoinLines(parts) ==
    IF parts = <<>> THEN ""
    ELSE IF Len(parts) = 1 THEN parts[1]
    ELSE parts[1] \o "\n" \o JoinLines(Tail(parts))

\* The content of one converted message (lines 69-94).
ConvertContent(content) ==
    IF content.kind = "string" THEN content.text
    ELSE IF content.kind = "blocks" THEN JoinLines(TextParts(content.blocks))
    ELSE ""

\* One entry of conversationHistory (lines 68, 96).
ConvertMessage(msg) ==
    [role |-> IF msg.role = "assistant" THEN "assistant" ELSE "user",
     content |-> ConvertContent(msg.content)]

\* convertAnthropicToKiro (lines 51-105): its conversationHistory.
convertAnthropicToKiro(anthropicRequest) ==
    LET messages == anthropicRequest.messages
        system == anthropicRequest.system
        systemEntry == IF system # "" THEN <<[role |-> "system", content |-> system]>>
                       ELSE <<>>
    IN systemEntry \o [i \in 1..Len(messages) |-> ConvertMessage(messages[i])]

\* One entry of history (lines 141-145).
HistoryEntry(msg) ==
    [key |-> IF msg.role = "assistant" THEN "assistantResponseMessage"
             ELSE "userInputMessage",
     content |-> msg.content]

\* buildKiroRequest (lines 112-152): the prompt of currentMessage and history.
buildKiroRequest(anthropicRequest) ==
    LET conversationHistory == convertAnthropicToKiro(anthropicRequest)
        users == SelectSeq(conversationHistory, LAMBDA m : m.role = "user")
        prompt == IF users = <<>> THEN "" ELSE users[Len(users)].content
        previousMessages ==
            IF conversationHistory = <<>> THEN <<>>
            ELSE SubSeq(conversationHistory, 1, Len(conversationHistory) - 1)
    IN [prompt |-> prompt,
        history |-> [i \in 1..Len(previousMessages) |-> HistoryEntry(previousMessages[i])]]

\* ---------------------------------------------------------------- SpecRequest
\* One call of buildKiroRequest on any request of up to MaxMessages messages.
\*   input: the Anthropic request; http: the call (pc) and the payload built.
MessageContents ==
    { StringContent("a"), StringContent("b"),
      BlocksContent(<<TextBlockOf("a"), ImageBlock>>),
      BlocksContent(<<DocumentBlock, TextBlockOf("c")>>),
      OtherContent }

Messages == { [role |-> r, content |-> c] : r \in {"user", "assistant"}, c \in MessageContents }

RECURSIVE MessageLists(_)
MessageLists(n) ==
    IF n = 0 THEN {<<>>}
    ELSE LET shorter == MessageLists(n - 1)
         IN shorter \cup { Append(l, m) : l \in { x \in shorter : Len(x) = n - 1 }, m \in Messages }

AnthropicRequests ==
    { [system |-> sys, messages |-> l] : sys \in {"", "s"}, l \in MessageLists(MaxMessages) }

RequestInit ==
    /\ frames = <<>>
    /\ rd = <<>>
    /\ yielded = <<>>
    /\ sync = <<>>
    /\ tr = <<>>
    /\ out = <<>>
    /\ fed = 0
    /\ tx = <<>>
    /\ input \in AnthropicRequests
    /\ http = [pc |-> "pending", request |-> [prompt |-> "", history |-> <<>>]]

RequestBuild ==
    /\ http.pc = "pending"
    /\ http' = [pc |-> "built", request |-> buildKiroRequest(input)]
    /\ UNCHANGED <<frames, input, rd, yielded, sync, tr, out, fed, tx>>

SpecRequest == RequestInit /\ [][RequestBuild]_vars

\* ---------------------------------------------------------------- claims on SpecRequest
\* The position of the last user message of the list, 0 if there is none.
LastUserAt(messages) ==
    LET at == { i \in 1..Len(messages) : messages[i].role = "user" }
    IN IF at = {} THEN 0 ELSE CHOOSE i \in at : \A j \in at : j <= i

\* The history the claim describes: the system prompt, if any, and every
\* message but the one at position k, converted, in order.
HistoryWithout(request, k) ==
    LET messages == request.messages
        others == SelectSeq([i \in 1..Len(messages) |-> [at |-> i, msg |-> messages[i]]],
                            LAMBDA e : e.at # k)
        systemEntry == IF request.system # ""
                       THEN <<[key |-> "userInputMessage", content |-> request.system]>>
                       ELSE <<>>
    IN systemEntry \o [i \in 1..Len(others) |-> HistoryEntry(ConvertMessage(others[i].msg))]

PromptAndHistoryAsClaimed ==
    LET k == LastUserAt(input.messages)
    IN /\ http.request.prompt = IF k = 0 THEN ""
                                ELSE ConvertContent(input.messages[k].content)
       /\ http.request.history = HistoryWithout(input, k)

\* C37: the request built has the last user message as its prompt, and its
\* history holds every other message (and the system prompt) once, in order,
\* and not the message that is the prompt.
C37_HistoryExcludesPrompt ==
    http.pc = "built" => PromptAndHistoryAsClaimed

\* C37 holds for the requests whose last message is a user message.
C37_WhenLastIsUser ==
    (/\ http.pc = "built"
     /\ input.messages # <<>>
     /\ input.messages[Len(input.messages)].role = "user") => PromptAndHistoryAsClaimed

\* A state that contradicts C37: the list ends with an assistant message; the
\* user message before it is the prompt and also the only history entry, and
\* the assistant message is in neither.
C37_PromptInHistory ==
    /\ http.pc = "built"
    /\ input.system = ""
    /\ input.messages = <<[role |-> "user", content |-> StringContent("a")],
                          [role |-> "assistant", content |-> StringContent("b")]>>
    /\ http.request.prompt = "a"
    /\ http.request.history = <<[key |-> "userInputMessage", content |-> "a"]>>

\* A second state that contradicts C37: a request with a system prompt and
\* no message is built with an empty history.
C37_SystemDropped ==
    /\ http.pc = "built"
    /\ input.system = "s"
    /\ input.messages = <<>>
    /\ http.request.history = <<>>

\* A state where C37 holds: system prompt, user, assistant, user.
C37_WitnessLastIsUser ==
    /\ http.pc = "built"
    /\ input.system = "s"
    /\ Len(input.messages) = 3
    /\ input.messages[2].role = "assistant"
    /\ input.messages[3] = [role |-> "user", content |-> BlocksContent(<<TextBlockOf("a"), ImageBlock>>)]
    /\ http.request.prompt = "a\n[Image attached]"
    /\ Len(http.request.history) = 3
    /\ http.request.history[1] = [key |-> "userInputMessage", content |-> "s"]
    /\ http.request.history[3].key = "assistantResponseMessage"

====
